---- MODULE Spec2Model ----
(***************************************************************************)
(* Proof-of-Loyalty (PoL) tag ledger of Multiflex Core: src/pol/pol.cpp,   *)
(* src/pol/pol.h and the RPC surface src/rpc/pol.cpp.                       *)
(*                                                                         *)
(* The state is the in-memory table g_tag_state, its mutex g_pol_mutex,    *)
(* the chain lock cs_main, the active chain, the two configuration         *)
(* arguments the ledger reads, and the call frames of the threads that run *)
(* OnConnectBlock, RebuildFromActiveChain and GetMinerTagStatus.           *)
(***************************************************************************)
EXTENDS Integers, Sequences, FiniteSets, TLC

VARIABLES
    pol_startheight,   \* gArgs "-pol_startheight"  (GetPolStartHeight)
    pol_monthblocks,   \* gArgs "-pol_monthblocks"  (GetPolMonthBlocks)
    chain,             \* ActiveChain(): chain[h + 1] is the block at height h
    g_tag_state,       \* std::unordered_map<std::string, MinerTagStatus>
    g_pol_mutex,       \* holder of g_pol_mutex, or "free"
    cs_main,           \* holder of cs_main, or "free"
    conn,              \* frame of the thread that connects blocks
    rb,                \* frame of the thread that runs RebuildFromActiveChain
    rpc,               \* frame of the thread that serves a status query
    committed,         \* g_tag_state as of the last release of g_pol_mutex by a writer
    prev               \* outcome of the last rebuild completed over the chain as it is

vars == <<pol_startheight, pol_monthblocks, chain, g_tag_state, g_pol_mutex,
          cs_main, conn, rb, rpc, committed, prev>>

-----------------------------------------------------------------------------
(* Bounds of the model.                                                    *)

\* Highest height a direct OnConnectBlock call is made with (SpecCalls).
MaxCallHeight == 25
\* Highest height of the active chain in SpecChain.
MaxHeight == 3
\* Highest height of the active chain in Spec.
MaxNodeHeight == 2
\* Highest height of the active chain in FairSpec.
MaxFairHeight == 1
\* Highest height of the active chain in SpecLedger.
MaxLedgerHeight == 4
\* Highest height of an update and of a subsidy request in SpecSubsidy.
MaxSubsidyHeight == 14

\* Block times the connection pipeline hands over.
Times == {1700000000, 1700000600}

-----------------------------------------------------------------------------
(* Program constants.                                                      *)

\* Upper end of std::clamp(points, 0, 24).
MaxPoints == 24
\* Points granted for an active month.
ActivePoints == 2
\* Default of -pol_startheight.
DefaultStartHeight == 1

\* kMflexId = { 'M','F','L','E','X','I','D' }
kMflexId == <<77, 70, 76, 69, 88, 73, 68>>

-----------------------------------------------------------------------------
(* Values.                                                                 *)

Max(a, b) == IF a >= b THEN a ELSE b
Min(a, b) == IF a <= b THEN a ELSE b

\* std::optional: std::nullopt is the empty sequence, a MinerTagStatus value
\* s is <<s>>, and a tag (4, 8 or 12 bytes) is the sequence of its bytes.
Nullopt == <<>>
Some(s) == <<s>>

\* MinerTagStatus{} : the default member initializers of the struct.
DefaultStatus ==
    [seen |-> FALSE,
     first_seen_height |-> -1,
     last_seen_height |-> -1,
     blocks_seen |-> 0,
     last_seen_time |-> 0,
     points |-> 0,
     last_seen_month |-> -1]

\* An empty std::unordered_map.
EmptyMap == [k \in {} |-> DefaultStatus]

\* Scripts are sequences of script elements. GetOp fails at the end of the
\* script and on an element whose push data runs past the end ("TRUNC").
OpReturn == [op |-> "OP_RETURN", push |-> <<>>]
OpDup == [op |-> "OP_DUP", push |-> <<>>]
Push(bytes) == [op |-> "PUSH", push |-> bytes]
Trunc == [op |-> "TRUNC", push |-> <<>>]

\* CScript::GetOp(it, op, push): the element at position it, if it parses.
GetOp(spk, it) ==
    IF it > Len(spk) \/ spk[it].op = "TRUNC"
    THEN [ok |-> FALSE, op |-> "OP_INVALIDOPCODE", push |-> <<>>, it |-> it]
    ELSE [ok |-> TRUE, op |-> spk[it].op, push |-> spk[it].push, it |-> it + 1]

\* std::equal(kMflexId.begin(), kMflexId.end(), push.begin()), push long enough.
HasMflexPrefix(push) == \A i \in 1..Len(kMflexId) : push[i] = kMflexId[i]

\* Body of the loop over coinbase.vout for one output: the tag, or Nullopt
\* when the output is passed over (continue, or a tag length that is not 4/8/12).
TagOfOutput(out) ==
    LET spk == out.scriptPubKey
        g1 == GetOp(spk, 1)
        g2 == GetOp(spk, g1.it)
        push == g2.push
        tag_len == Len(push) - Len(kMflexId)
    IN  IF ~g1.ok THEN Nullopt
        ELSE IF g1.op # "OP_RETURN" THEN Nullopt
        ELSE IF ~g2.ok THEN Nullopt
        ELSE IF Len(push) < Len(kMflexId) + 4 THEN Nullopt
        ELSE IF ~HasMflexPrefix(push) THEN Nullopt
        ELSE IF tag_len = 4 \/ tag_len = 8 \/ tag_len = 12
             THEN SubSeq(push, Len(kMflexId) + 1, Len(push))
             ELSE Nullopt

RECURSIVE ScanOutputs(_, _)
\* for (const auto& out : coinbase.vout) from position i on.
ScanStopsAtFirstOutput(vout, i) ==
    IF i > Len(vout) THEN Nullopt ELSE TagOfOutput(vout[i])
ScanOutputs(vout, i) ==
    IF i > Len(vout) THEN Nullopt
    ELSE LET t == TagOfOutput(vout[i])
         IN  IF t # Nullopt THEN t ELSE ScanOutputs(vout, i + 1)

\* ExtractMinerTagFromBlock(block)
ExtractMinerTagFromBlock(block) ==
    IF Len(block.vtx) = 0 THEN Nullopt
    ELSE IF Len(block.vtx[1].vout) = 0 THEN Nullopt
    ELSE ScanOutputs(block.vtx[1].vout, 1)

HexDigits == <<"0", "1", "2", "3", "4", "5", "6", "7",
               "8", "9", "a", "b", "c", "d", "e", "f">>

RECURSIVE HexStr(_)
\* HexStr(tag): two lower-case hex digits per byte.
HexStr(bytes) ==
    IF Len(bytes) = 0 THEN <<>>
    ELSE <<HexDigits[(bytes[1] \div 16) + 1], HexDigits[(bytes[1] % 16) + 1]>>
         \o HexStr(Tail(bytes))

\* MonthIndex(height, month_blocks)
MonthIndexOfOneBlock(height, month_blocks) ==
    IF month_blocks <= 0 THEN Max(height, 0)
    ELSE IF height < 0 THEN 0
    ELSE height \div month_blocks
MonthIndex(height, month_blocks) ==
    IF month_blocks <= 0 THEN 0
    ELSE IF height < 0 THEN 0
    ELSE height \div month_blocks

\* std::clamp(v, 0, 24)
ClampNoUpper(v) == Max(v, 0)
ClampBelowMax(v) == Min(Max(v, 0), MaxPoints - 1)
ClampPoints(v) == Min(Max(v, 0), MaxPoints)

\* missed = cur_month - s.last_seen_month - 1
MissedNoMinusOne(cur_month, last_seen_month) == cur_month - last_seen_month
Missed(cur_month, last_seen_month) == cur_month - last_seen_month - 1

\* if (cur_month > s.last_seen_month)
MonthAdvancedOrSame(cur_month, last_seen_month) == cur_month >= last_seen_month
MonthDiffers(cur_month, last_seen_month) == cur_month # last_seen_month
MonthAdvanced(cur_month, last_seen_month) == cur_month > last_seen_month

\* s.points = std::clamp(s.points + 2, 0, 24) of the first sighting
FirstSeenPointsOne(points) == ClampPoints(points + 1)
FirstSeenPoints(points) == ClampPoints(points + ActivePoints)

\* s.seen = true
MarkSeenNever(s) == s
MarkSeen(s) == [s EXCEPT !.seen = TRUE]

\* s.first_seen_height = height
FirstSeenHeightPlusOne(height) == height + 1
FirstSeenHeight(height) == height

\* s.blocks_seen++ (a uint32_t: it wraps at 2^32, which no chain of the
\* model's length comes near)
IncBlocksSeenOnlyOnce(n) == IF n = 0 THEN 1 ELSE n
IncBlocksSeenTwice(n) == n + 2
IncBlocksSeen(n) == n + 1

-----------------------------------------------------------------------------
(* OnConnectBlock, statement by statement.                                 *)

\* The locals of OnConnectBlock once the tag is extracted.
FrameMonthOfTime(block, height, block_time, month_blocks) ==
    [block |-> block,
     height |-> height,
     block_time |-> block_time,
     key |-> HexStr(ExtractMinerTagFromBlock(block)),
     cur_month |-> MonthIndex(height, month_blocks) + (block_time \div 1700000600)]
Frame(block, height, block_time, month_blocks) ==
    [block |-> block,
     height |-> height,
     block_time |-> block_time,
     key |-> HexStr(ExtractMinerTagFromBlock(block)),
     cur_month |-> MonthIndex(height, month_blocks)]

\* One statement of the region of OnConnectBlock that runs under g_pol_mutex,
\* on the entry s = g_tag_state[key]: the entry after it and the next statement.
\* Labels are line numbers of pol.cpp; "L136" is the log statement that ends
\* the function, after which the scope ends and the lock is released.
Stmt(s, pc, f) ==
    CASE pc = "L115" -> [s |-> s, pc |-> IF ~s.seen THEN "L116" ELSE "L123"]
      [] pc = "L116" -> [s |-> MarkSeen(s), pc |-> "L117"]
      [] pc = "L117" -> [s |-> [s EXCEPT !.first_seen_height = FirstSeenHeight(f.height)],
                         pc |-> "L118"]
      [] pc = "L118" -> [s |-> [s EXCEPT !.last_seen_month = f.cur_month], pc |-> "L120"]
      [] pc = "L120" -> [s |-> [s EXCEPT !.points = FirstSeenPoints(s.points)], pc |-> "L132"]
      [] pc = "L123" -> [s |-> s,
                         pc |-> IF MonthAdvanced(f.cur_month, s.last_seen_month)
                                THEN "L124" ELSE "L132"]
      [] pc = "L124" -> LET missed == Missed(f.cur_month, s.last_seen_month)
                        IN  [s |-> IF missed > 0
                                   THEN [s EXCEPT !.points = s.points - missed * 1]
                                   ELSE s,
                             pc |-> "L126"]
      [] pc = "L126" -> [s |-> [s EXCEPT !.points = s.points + ActivePoints], pc |-> "L127"]
      [] pc = "L127" -> [s |-> [s EXCEPT !.points = ClampPoints(s.points)], pc |-> "L128"]
      [] pc = "L128" -> [s |-> [s EXCEPT !.last_seen_month = f.cur_month], pc |-> "L132"]
      [] pc = "L132" -> [s |-> [s EXCEPT !.last_seen_height = f.height], pc |-> "L133"]
      [] pc = "L133" -> [s |-> [s EXCEPT !.last_seen_time = f.block_time], pc |-> "L134"]
      [] pc = "L134" -> [s |-> [s EXCEPT !.blocks_seen = IncBlocksSeen(s.blocks_seen)],
                         pc |-> "L136"]

RECURSIVE RunLocked(_, _, _)
\* Lines 115..134 run to the end of the scope from statement pc.
RunLocked(s, pc, f) ==
    IF pc = "L136" THEN s
    ELSE LET r == Stmt(s, pc, f) IN RunLocked(r.s, r.pc, f)

\* MinerTagStatus& s = g_tag_state[key]: operator[] inserts a default entry.
EntryRef(table, key) == IF key \in DOMAIN table THEN table[key] ELSE DefaultStatus

\* The table with the entry of key set to s.
StoreDropsOthers(table, key, s) == [k \in {key} |-> s]
StoreDecaysOthers(table, key, s) ==
    [k \in DOMAIN table \cup {key} |->
        IF k = key THEN s ELSE [table[k] EXCEPT !.points = Max(0, @ - 1)]]
StoreOnlyForward(table, key, s) ==
    IF key \in DOMAIN table /\ table[key].seen
       /\ s.last_seen_height < table[key].last_seen_height
    THEN table
    ELSE [k \in DOMAIN table \cup {key} |-> IF k = key THEN s ELSE table[k]]
Store(table, key, s) ==
    [k \in DOMAIN table \cup {key} |-> IF k = key THEN s ELSE table[k]]

\* Whether OnConnectBlock gets past its two early returns.
AppliesBelowStart(block, height, start_height) ==
    ExtractMinerTagFromBlock(block) # Nullopt
Applies(block, height, start_height) ==
    /\ ~(height < start_height)
    /\ ExtractMinerTagFromBlock(block) # Nullopt

\* OnConnectBlock(block, height, block_time) from call to return, as one step
\* on the table (what a caller sees when nothing else runs in between).
OnConnectBlock(table, block, height, block_time, start_height, month_blocks) ==
    IF ~Applies(block, height, start_height) THEN table
    ELSE LET f == Frame(block, height, block_time, month_blocks)
         IN  Store(table, f.key, RunLocked(EntryRef(table, f.key), "L115", f))

-----------------------------------------------------------------------------
(* The subsidy calculator.                                                 *)

\* Integer division of C++ (truncation towards zero), for a positive divisor.
CDiv(a, b) == IF a >= 0 THEN a \div b ELSE -((-a) \div b)

\* The emission schedule, GetBlockSubsidy(height, consensus) of validation.cpp:
\* the initial subsidy shifted right once per halving interval, 0 from the
\* 64th halving on. The amounts are scaled down: an odd initial subsidy, so
\* that odd and even schedule values, 1 and 0 all occur within a few heights.
InitialSubsidy == 101
HalvingInterval == 2
GetBlockSubsidy(height) ==
    LET halvings == height \div HalvingInterval
    IN  IF halvings >= 64 THEN 0 ELSE InitialSubsidy \div (2 ^ halvings)

\* auto it = g_tag_state.find(key): the table after the lookup.
AfterFindInserts(table, key) ==
    [k \in DOMAIN table \cup {key} |-> IF k \in DOMAIN table THEN table[k] ELSE DefaultStatus]
AfterFind(table, key) == table

\* GetMinerTagStatus(tag) from call to return, on the table.
GetMinerTagStatus(table, tag) ==
    LET key == HexStr(tag)
    IN  IF key \in DOMAIN table THEN Some(table[key]) ELSE Nullopt

\* const CAmount S_loyal = S - S_base
LoyalHalfHalved(S, S_base) == CDiv(S, 2)
LoyalHalfWhole(S, S_base) == S
LoyalHalf(S, S_base) == S - S_base

\* const CAmount bonus = (S_loyal * points) / 24
BonusInverted(S_loyal, points) == CDiv(S_loyal * (MaxPoints - points), 24)
Bonus(S_loyal, points) == CDiv(S_loyal * points, 24)

\* GetAllowedSubsidy(tag, height, consensus) from call to return, on the table.
GetAllowedSubsidy(table, tag, height) ==
    LET S == GetBlockSubsidy(height)
        S_base == CDiv(S, 2)
        S_loyal == LoyalHalf(S, S_base)
        st == GetMinerTagStatus(table, tag)
        points == IF st # Nullopt THEN ClampPoints(st[1].points) ELSE 0
    IN  S_base + Bonus(S_loyal, points)

\* return full / 2
HalfOfFullRoundedUp(full) == CDiv(full + 1, 2)
HalfOfFull(full) == CDiv(full, 2)

\* GetBaseSubsidy(height, consensus)
GetBaseSubsidy(height) == HalfOfFull(GetBlockSubsidy(height))

-----------------------------------------------------------------------------
(* Blocks the model connects.                                              *)

\* miner_tag_hex 714b9f7144591e13fb75d4d5 (12 bytes) and a 4-byte tag.
TagA == <<113, 75, 159, 113, 68, 89, 30, 19, 251, 117, 212, 213>>
TagB == <<222, 173, 190, 239>>

PayOut == [scriptPubKey |-> <<OpDup, Push(<<1, 2, 3>>)>>]
TagOut(tag) == [scriptPubKey |-> <<OpReturn, Push(kMflexId \o tag)>>]

\* A block whose coinbase pays out and then carries the MFLEXID marker.
TaggedBlock(tag) == [vtx |-> <<[vout |-> <<PayOut, TagOut(tag)>>]>>]
\* A block whose coinbase carries no marker.
PlainBlock == [vtx |-> <<[vout |-> <<PayOut>>]>>]

-----------------------------------------------------------------------------
(* Frames of idle threads.                                                 *)

\* No call of OnConnectBlock in progress: the locals hold nothing.
NoCall ==
    [block |-> PlainBlock, height |-> -1, block_time |-> 0, key |-> <<>>, cur_month |-> 0]

ConnIdle == [pc |-> "idle"] @@ NoCall
RbIdle == [pc |-> "idle", tip |-> -1, bad |-> {}, before |-> EmptyMap] @@ NoCall
RpcIdle ==
    [pc |-> "idle", key |-> <<>>, ret |-> Nullopt, tip_height |-> -1,
     height |-> -1, allowed |-> 0, base |-> 0]
\* MinerTagStatus st{false, -1, -1, 0, 0, 0, -1} of getpoladdressstatus.
RpcDefaultStatus ==
    [seen |-> FALSE,
     first_seen_height |-> -1,
     last_seen_height |-> -1,
     blocks_seen |-> 0,
     last_seen_time |-> 0,
     points |-> 0,
     last_seen_month |-> -1]
\* bonus = (allowed > base) ? (allowed - base) : 0 of getpoladdressstatus.
BonusSubsidy(allowed, base) == IF allowed > base THEN allowed - base ELSE 0
\* if (st_opt.has_value()) st = *st_opt: the status the request reports.
StatusOf(st_opt) == IF st_opt # Nullopt THEN st_opt[1] ELSE RpcDefaultStatus
\* prev when no rebuild ran over the chain as it is now.
PrevNone == [done |-> FALSE, bad |-> {}, table |-> EmptyMap]

\* Highest height an update was applied at, -1 for an empty table.
LastApplied(table) ==
    IF DOMAIN table = {} THEN -1
    ELSE CHOOSE h \in {table[k].last_seen_height : k \in DOMAIN table} :
            \A k \in DOMAIN table : table[k].last_seen_height <= h

-----------------------------------------------------------------------------
(* SpecCalls: the update operation driven directly, one call per step, at  *)
(* strictly increasing heights, and the table clear of a rebuild.          *)

CallBlocks == {TaggedBlock(TagA), PlainBlock}
\* Values of -pol_monthblocks the calls are made under.
CallMonthBlocks == {1, 10}

InitCalls ==
    /\ pol_startheight = DefaultStartHeight
    /\ pol_monthblocks \in CallMonthBlocks
    /\ chain = <<>>
    /\ g_tag_state = EmptyMap
    /\ g_pol_mutex = "free"
    /\ cs_main = "free"
    /\ conn = ConnIdle
    /\ rb = RbIdle
    /\ rpc = RpcIdle
    /\ committed = EmptyMap
    /\ prev = PrevNone

\* One call of OnConnectBlock that reaches the table; conn keeps its frame
\* as of the log statement at the end of the function.
CallApplied ==
    \E block \in CallBlocks, height \in 0..MaxCallHeight, block_time \in Times :
        /\ height > LastApplied(g_tag_state)
        /\ Applies(block, height, pol_startheight)
        /\ g_tag_state' = OnConnectBlock(g_tag_state, block, height, block_time,
                                         pol_startheight, pol_monthblocks)
        /\ conn' = [pc |-> "L136"] @@ Frame(block, height, block_time, pol_monthblocks)
        /\ UNCHANGED <<pol_startheight, pol_monthblocks, chain, g_pol_mutex, cs_main,
                       rb, rpc, committed, prev>>

\* One call of OnConnectBlock that takes an early return.
CallReturnsEarly ==
    \E block \in CallBlocks, height \in 0..MaxCallHeight, block_time \in Times :
        /\ height > LastApplied(g_tag_state)
        /\ ~Applies(block, height, pol_startheight)
        /\ g_tag_state' = OnConnectBlock(g_tag_state, block, height, block_time,
                                         pol_startheight, pol_monthblocks)
        /\ conn' = ConnIdle
        /\ UNCHANGED <<pol_startheight, pol_monthblocks, chain, g_pol_mutex, cs_main,
                       rb, rpc, committed, prev>>

\* { LOCK(g_pol_mutex); g_tag_state.clear(); } of RebuildFromActiveChain.
CallClear ==
    /\ g_tag_state' = EmptyMap
    /\ conn' = ConnIdle
    /\ UNCHANGED <<pol_startheight, pol_monthblocks, chain, g_pol_mutex, cs_main,
                   rb, rpc, committed, prev>>

NextCalls == CallApplied \/ CallReturnsEarly \/ CallClear

SpecCalls == InitCalls /\ [][NextCalls]_vars

-----------------------------------------------------------------------------
(* Spec: the node. One thread connects blocks (it holds cs_main around     *)
(* OnConnectBlock), one runs RebuildFromActiveChain, one serves            *)
(* GetMinerTagStatus; the steps are the statements of pol.cpp.             *)

\* Blocks the connection pipeline connects, and the heights of the chain.
ChainBlocks == {TaggedBlock(TagA), TaggedBlock(TagB), PlainBlock}
\* Values of -pol_monthblocks the node runs under.
ChainMonthBlocks == {2}
\* Tags a status query asks for.
QueryTags == {TagA, TagB}

\* chain.Tip()->nHeight, -1 when chain.Tip() is null.
TipHeight == Len(chain) - 1

\* LOCK(g_pol_mutex) can be taken.
MayLockAlways(m) == TRUE
MayLock(m) == m = "free"

\* LOCK(cs_main) can be taken.
MayLockCsMainAlways(m) == TRUE
MayLockCsMain(m) == m = "free"

\* The end of the scope of a LOCK(g_pol_mutex): the mutex after it.
ScopeEndKeepsLock(m) == m
ScopeEnd(m) == "free"

\* LOCK(g_pol_mutex) of GetMinerTagStatus can be taken.
QueryMayLockAlways(m) == TRUE
QueryMayLock(m) == MayLock(m)

\* The genesis block, the first block of every chain.
Genesis == [block |-> PlainBlock, time |-> 0]

\* The blocks, with their times, that can be connected after the tip.
Connectable ==
    IF Len(chain) = 0 THEN {Genesis}
    ELSE {[block |-> b, time |-> t] : b \in ChainBlocks, t \in Times}

Init ==
    /\ pol_startheight = DefaultStartHeight
    /\ pol_monthblocks \in ChainMonthBlocks
    /\ chain = <<>>
    /\ g_tag_state = EmptyMap
    /\ g_pol_mutex = "free"
    /\ cs_main = "free"
    /\ conn = ConnIdle
    /\ rb = RbIdle
    /\ rpc = RpcIdle
    /\ committed = EmptyMap
    /\ prev = PrevNone

\* One statement of OnConnectBlock run by thread me, whose frame is fr before
\* the step and fr2 after it.
OnConnectBlockStep(me, fr, fr2) ==
    \/ \* lines 101..110: the early returns, the key and the month
       /\ fr.pc = "L101"
       /\ fr2 = IF Applies(fr.block, fr.height, pol_startheight)
                THEN [fr EXCEPT !.pc = "L112",
                                !.key = HexStr(ExtractMinerTagFromBlock(fr.block)),
                                !.cur_month = MonthIndex(fr.height, pol_monthblocks)]
                ELSE [fr EXCEPT !.pc = "ret"]
       /\ UNCHANGED <<g_tag_state, g_pol_mutex, committed>>
    \/ \* lines 112..113: LOCK(g_pol_mutex); s = g_tag_state[key]
       /\ fr.pc = "L112"
       /\ MayLock(g_pol_mutex)
       /\ g_pol_mutex' = me
       /\ g_tag_state' = Store(g_tag_state, fr.key, EntryRef(g_tag_state, fr.key))
       /\ fr2 = [fr EXCEPT !.pc = "L115"]
       /\ UNCHANGED committed
    \/ \* lines 115..134, one statement
       /\ fr.pc \in {"L115", "L116", "L117", "L118", "L120", "L123", "L124",
                     "L126", "L127", "L128", "L132", "L133", "L134"}
       /\ LET r == Stmt(g_tag_state[fr.key], fr.pc, fr)
          IN  /\ g_tag_state' = Store(g_tag_state, fr.key, r.s)
              /\ fr2 = [fr EXCEPT !.pc = r.pc]
       /\ UNCHANGED <<g_pol_mutex, committed>>
    \/ \* lines 136..139: the log line and the end of the scope of the lock
       /\ fr.pc = "L136"
       /\ g_pol_mutex' = ScopeEnd(g_pol_mutex)
       /\ committed' = g_tag_state
       /\ fr2 = [fr EXCEPT !.pc = "ret"]
       /\ UNCHANGED g_tag_state

\* The connection pipeline takes cs_main and calls OnConnectBlock for the
\* block it connects at the height after the tip.
ConnectBegin ==
    \E b \in Connectable :
        /\ conn.pc = "idle"
        /\ cs_main = "free"
        /\ TipHeight < MaxNodeHeight
        /\ cs_main' = "conn"
        /\ conn' = [ConnIdle EXCEPT !.pc = "L101", !.block = b.block,
                                    !.height = TipHeight + 1, !.block_time = b.time]
        /\ UNCHANGED <<pol_startheight, pol_monthblocks, chain, g_tag_state,
                       g_pol_mutex, rb, rpc, committed, prev>>

\* OnConnectBlock on the connecting thread.
ConnectStep ==
    /\ conn.pc \notin {"idle", "ret"}
    /\ OnConnectBlockStep("conn", conn, conn')
    /\ UNCHANGED <<pol_startheight, pol_monthblocks, chain, cs_main, rb, rpc, prev>>

\* OnConnectBlock returned: the block becomes the tip and cs_main is released.
ConnectEnd ==
    /\ conn.pc = "ret"
    /\ chain' = Append(chain, [block |-> conn.block, time |-> conn.block_time])
    /\ cs_main' = "free"
    /\ conn' = ConnIdle
    /\ UNCHANGED <<pol_startheight, pol_monthblocks, g_tag_state, g_pol_mutex,
                   rb, rpc, committed, prev>>

\* chainman.m_blockman.ReadBlock(block, *pindex) during the rebuild in progress.
ReadBlock(height) == height \notin rb.bad

\* The loop variable after a block that could not be read: continue.
AfterReadFailBreak(height, tip) == tip + 1
AfterReadFailRetry(height, tip) == height
AfterReadFail(height, tip) == height + 1

\* const int start_height = std::max(0, GetPolStartHeight())
FirstHeightPlusOne(start_height) == Max(0, start_height) + 1
FirstHeight(start_height) == Max(0, start_height)

\* { LOCK(g_pol_mutex); g_tag_state.clear(); }
ClearedKeep(table) == table
Cleared(table) == EmptyMap

\* Line 217..223: LOCK(cs_main), the tip and the blocks the disk will not
\* give back during this rebuild. With history set, the frame remembers the
\* table the call found and the return records the outcome in prev.
RebuildBegin(history) ==
    \E bad \in SUBSET (FirstHeight(pol_startheight)..TipHeight) :
        /\ rb.pc = "idle"
        /\ MayLockCsMain(cs_main)
        /\ cs_main' = "rb"
        /\ rb' = [RbIdle EXCEPT !.pc = IF TipHeight < 0 THEN "R256" ELSE "R226",
                                !.tip = TipHeight, !.bad = bad,
                                !.before = IF history THEN g_tag_state ELSE EmptyMap]
        /\ UNCHANGED <<pol_startheight, pol_monthblocks, chain, g_tag_state,
                       g_pol_mutex, conn, rpc, committed, prev>>

\* Lines 225..230: the table is cleared under the lock; the loop starts.
RebuildClear ==
    /\ rb.pc = "R226"
    /\ MayLock(g_pol_mutex)
    /\ g_tag_state' = Cleared(g_tag_state)
    /\ committed' = g_tag_state'
    /\ rb' = [rb EXCEPT !.pc = "R234", !.height = FirstHeight(pol_startheight)]
    /\ UNCHANGED <<pol_startheight, pol_monthblocks, chain, g_pol_mutex, cs_main,
                   conn, rpc, prev>>

\* Lines 234..248: the loop test, the read of the block, the call.
RebuildLoop ==
    /\ rb.pc = "R234"
    /\ rb' = IF ~(rb.height <= rb.tip) THEN [rb EXCEPT !.pc = "R252"]
             ELSE IF ~ReadBlock(rb.height)
                  THEN [rb EXCEPT !.height = AfterReadFail(rb.height, rb.tip)]
                  ELSE [rb EXCEPT !.pc = "L101",
                                  !.block = chain[rb.height + 1].block,
                                  !.block_time = chain[rb.height + 1].time]
    /\ UNCHANGED <<pol_startheight, pol_monthblocks, chain, g_tag_state, g_pol_mutex,
                   cs_main, conn, rpc, committed, prev>>

\* OnConnectBlock on the rebuilding thread.
RebuildStep ==
    /\ rb.pc \notin {"idle", "ret", "R226", "R234", "R252", "R256"}
    /\ OnConnectBlockStep("rb", rb, rb')
    /\ UNCHANGED <<pol_startheight, pol_monthblocks, chain, cs_main, conn, rpc, prev>>

\* OnConnectBlock returned: ++height.
RebuildNext ==
    /\ rb.pc = "ret"
    /\ rb' = [rb EXCEPT !.pc = "R234", !.height = rb.height + 1]
    /\ UNCHANGED <<pol_startheight, pol_monthblocks, chain, g_tag_state, g_pol_mutex,
                   cs_main, conn, rpc, committed, prev>>

\* Lines 251..255: the closing log line under the lock.
RebuildLog ==
    /\ rb.pc = "R252"
    /\ MayLock(g_pol_mutex)
    /\ rb' = [rb EXCEPT !.pc = "R256"]
    /\ UNCHANGED <<pol_startheight, pol_monthblocks, chain, g_tag_state, g_pol_mutex,
                   cs_main, conn, rpc, committed, prev>>

\* Line 256 (and the return of line 222): cs_main is released.
RebuildEnd(history) ==
    /\ rb.pc = "R256"
    /\ cs_main' = "free"
    /\ prev' = IF history
               THEN [done |-> TRUE, bad |-> rb.bad, table |-> g_tag_state]
               ELSE prev
    /\ rb' = RbIdle
    /\ UNCHANGED <<pol_startheight, pol_monthblocks, chain, g_tag_state, g_pol_mutex,
                   conn, rpc, committed>>

\* A status request for a tag arrives (src/rpc/pol.cpp line 188): the handler
\* starts with GetTipHeight; the key is the one GetMinerTagStatus computes at
\* line 143 of pol.cpp.
QueryBegin ==
    \E tag \in QueryTags :
        /\ rpc.pc = "idle"
        /\ rpc' = [RpcIdle EXCEPT !.pc = "T43", !.key = HexStr(tag)]
        /\ UNCHANGED <<pol_startheight, pol_monthblocks, chain, g_tag_state,
                       g_pol_mutex, cs_main, conn, rb, committed, prev>>

\* GetTipHeight, src/rpc/pol.cpp line 43: WITH_LOCK(::cs_main, ...) takes the lock.
GetTipHeightLock ==
    /\ rpc.pc = "T43"
    /\ MayLockCsMain(cs_main)
    /\ cs_main' = "rpc"
    /\ rpc' = [rpc EXCEPT !.pc = "T43r"]
    /\ UNCHANGED <<pol_startheight, pol_monthblocks, chain, g_tag_state, g_pol_mutex,
                   conn, rb, committed, prev>>

\* GetTipHeight: the height of the tip, -1 without a tip; the lock is released.
GetTipHeightReturn ==
    /\ rpc.pc = "T43r"
    /\ cs_main' = "free"
    /\ rpc' = [rpc EXCEPT !.pc = "L144", !.tip_height = TipHeight]
    /\ UNCHANGED <<pol_startheight, pol_monthblocks, chain, g_tag_state, g_pol_mutex,
                   conn, rb, committed, prev>>

\* Line 144: LOCK(g_pol_mutex).
QueryLock ==
    /\ rpc.pc = "L144"
    /\ QueryMayLock(g_pol_mutex)
    /\ g_pol_mutex' = "rpc"
    /\ rpc' = [rpc EXCEPT !.pc = "L146"]
    /\ UNCHANGED <<pol_startheight, pol_monthblocks, chain, g_tag_state, cs_main,
                   conn, rb, committed, prev>>

\* Lines 146..148: find; the result is std::nullopt or a copy of the entry.
QueryFind ==
    /\ rpc.pc = "L146"
    /\ rpc' = [rpc EXCEPT !.pc = "L149",
                          !.ret = IF rpc.key \in DOMAIN g_tag_state
                                  THEN Some(g_tag_state[rpc.key]) ELSE Nullopt]
    /\ g_tag_state' = AfterFind(g_tag_state, rpc.key)
    /\ UNCHANGED <<pol_startheight, pol_monthblocks, chain,
                   g_pol_mutex, cs_main, conn, rb, committed, prev>>

\* Line 149: the scope of the lock ends and the copy is handed to the caller.
QueryUnlock ==
    /\ rpc.pc = "L149"
    /\ g_pol_mutex' = ScopeEnd(g_pol_mutex)
    /\ rpc' = [rpc EXCEPT !.pc = "returned"]
    /\ UNCHANGED <<pol_startheight, pol_monthblocks, chain, g_tag_state, cs_main,
                   conn, rb, committed, prev>>

\* The caller is done with the snapshot.
QueryDone ==
    /\ rpc.pc = "returned"
    /\ rpc' = RpcIdle
    /\ UNCHANGED <<pol_startheight, pol_monthblocks, chain, g_tag_state,
                   g_pol_mutex, cs_main, conn, rb, committed, prev>>

Next ==
    \/ ConnectBegin \/ ConnectStep \/ ConnectEnd
    \/ RebuildBegin(FALSE) \/ RebuildClear \/ RebuildLoop \/ RebuildStep
    \/ RebuildNext \/ RebuildLog \/ RebuildEnd(FALSE)
    \/ QueryBegin \/ GetTipHeightLock \/ GetTipHeightReturn
    \/ QueryLock \/ QueryFind \/ QueryUnlock \/ QueryDone

Spec == Init /\ [][Next]_vars

-----------------------------------------------------------------------------
(* SpecSubsidy: the subsidy calculator applied to ledgers that updates     *)
(* built. One operation runs at a time: an update, or a status request     *)
(* (lines 204..210 of src/rpc/pol.cpp) for a tag and a height.              *)

InitSubsidy ==
    /\ pol_startheight = DefaultStartHeight
    /\ pol_monthblocks = 1
    /\ chain = <<>>
    /\ g_tag_state = EmptyMap
    /\ g_pol_mutex = "free"
    /\ cs_main = "free"
    /\ conn = ConnIdle
    /\ rb = RbIdle
    /\ rpc = RpcIdle
    /\ committed = EmptyMap
    /\ prev = PrevNone

\* An update for a block of tag TagA, between two requests.
SubsidyUpdate ==
    /\ rpc.pc = "idle"
    /\ CallApplied
    /\ conn'.height <= MaxSubsidyHeight
    /\ conn'.block_time = 1700000000

\* getpoladdressstatus, lines 204..210: the status, the allowed subsidy and
\* the base subsidy for a tag at a height.
SubsidyCall ==
    \E tag \in {TagA, TagB}, height \in 0..MaxSubsidyHeight :
        /\ rpc.pc = "idle"
        /\ rpc' = [RpcIdle EXCEPT !.pc = "returned",
                                  !.key = HexStr(tag),
                                  !.ret = GetMinerTagStatus(g_tag_state, tag),
                                  !.height = height,
                                  !.allowed = GetAllowedSubsidy(g_tag_state, tag, height),
                                  !.base = GetBaseSubsidy(height)]
        /\ g_tag_state' = AfterFind(AfterFind(g_tag_state, HexStr(tag)), HexStr(tag))
        /\ UNCHANGED <<pol_startheight, pol_monthblocks, chain,
                       g_pol_mutex, cs_main, conn, rb, committed, prev>>

NextSubsidy == SubsidyUpdate \/ SubsidyCall \/ QueryDone

SpecSubsidy == InitSubsidy /\ [][NextSubsidy]_vars

-----------------------------------------------------------------------------
(* SpecLedger: the ledger as the connection of blocks builds it, one block *)
(* after the other at the height after the tip, under a start height of 1   *)
(* or 2. conn holds the frame of the last call as of its return.            *)

\* Values of -pol_startheight the blocks are connected under.
LedgerStartHeights == {DefaultStartHeight, 2}

InitLedger ==
    /\ pol_startheight \in LedgerStartHeights
    /\ pol_monthblocks \in ChainMonthBlocks
    /\ chain = <<>>
    /\ g_tag_state = EmptyMap
    /\ g_pol_mutex = "free"
    /\ cs_main = "free"
    /\ conn = ConnIdle
    /\ rb = RbIdle
    /\ rpc = RpcIdle
    /\ committed = EmptyMap
    /\ prev = PrevNone

\* The frame of a call of OnConnectBlock as of its return.
ReturnedFrame(block, height, block_time) ==
    IF Applies(block, height, pol_startheight)
    THEN [pc |-> "ret"] @@ Frame(block, height, block_time, pol_monthblocks)
    ELSE [ConnIdle EXCEPT !.pc = "ret", !.block = block, !.height = height,
                          !.block_time = block_time]

\* The connection pipeline connects one block: OnConnectBlock, the new tip.
LedgerConnect ==
    \E b \in Connectable :
        /\ TipHeight < MaxLedgerHeight
        /\ g_tag_state' = OnConnectBlock(g_tag_state, b.block, TipHeight + 1, b.time,
                                         pol_startheight, pol_monthblocks)
        /\ committed' = g_tag_state'
        /\ chain' = Append(chain, b)
        /\ conn' = ReturnedFrame(b.block, TipHeight + 1, b.time)
        /\ UNCHANGED <<pol_startheight, pol_monthblocks, g_pol_mutex, cs_main,
                       rb, rpc, prev>>

NextLedger == LedgerConnect

SpecLedger == InitLedger /\ [][NextLedger]_vars

-----------------------------------------------------------------------------
(* SpecChain: block connection and rebuilds with no query thread. Nothing  *)
(* else takes g_pol_mutex, so a call of OnConnectBlock is one step; the    *)
(* history of rebuilds is recorded.                                        *)

\* The connection pipeline connects one block: cs_main, OnConnectBlock, the
\* new tip.
ChainConnect ==
    \E b \in Connectable :
        /\ cs_main = "free"
        /\ TipHeight < MaxHeight
        /\ g_tag_state' = OnConnectBlock(g_tag_state, b.block, TipHeight + 1, b.time,
                                         pol_startheight, pol_monthblocks)
        /\ committed' = g_tag_state'
        /\ chain' = Append(chain, b)
        /\ prev' = PrevNone
        /\ UNCHANGED <<pol_startheight, pol_monthblocks, g_pol_mutex, cs_main,
                       conn, rb, rpc>>

\* One pass of the loop of lines 234..249 whose block is read: the call of
\* OnConnectBlock and ++height.
ChainRebuildCall ==
    /\ rb.pc = "R234"
    /\ rb.height <= rb.tip
    /\ ReadBlock(rb.height)
    /\ g_tag_state' = OnConnectBlock(g_tag_state, chain[rb.height + 1].block, rb.height,
                                     chain[rb.height + 1].time,
                                     pol_startheight, pol_monthblocks)
    /\ committed' = g_tag_state'
    /\ rb' = [rb EXCEPT !.height = rb.height + 1]
    /\ UNCHANGED <<pol_startheight, pol_monthblocks, chain, g_pol_mutex, cs_main,
                   conn, rpc, prev>>

\* One pass of the loop whose block is not read, or the end of the loop.
ChainRebuildSkip ==
    /\ rb.pc = "R234"
    /\ ~(rb.height <= rb.tip /\ ReadBlock(rb.height))
    /\ rb' = IF ~(rb.height <= rb.tip) THEN [rb EXCEPT !.pc = "R252"]
             ELSE [rb EXCEPT !.height = AfterReadFail(rb.height, rb.tip)]
    /\ UNCHANGED <<pol_startheight, pol_monthblocks, chain, g_tag_state, g_pol_mutex,
                   cs_main, conn, rpc, committed, prev>>

NextChain ==
    \/ ChainConnect
    \/ RebuildBegin(TRUE) \/ RebuildClear \/ ChainRebuildCall \/ ChainRebuildSkip
    \/ RebuildLog \/ RebuildEnd(TRUE)

SpecChain == Init /\ [][NextChain]_vars

-----------------------------------------------------------------------------
(* Claims about the update operation (SpecCalls).                          *)

\* The step is an update that reached the table: conn' is its frame.
UpdateStep == conn' # conn /\ conn'.pc = "L136"
\* The entry the update of this step found, and the entry it left.
OldEntry == g_tag_state[conn'.key]
NewEntry == g_tag_state'[conn'.key]
\* The period of the update of this step: height div period_length.
UpdatePeriod == conn'.height \div pol_monthblocks
\* clamp(v, 0, 24), written out.
Clamped(v) == IF v < 0 THEN 0 ELSE IF v > 24 THEN 24 ELSE v

\* C1: after any sequence of updates and table clears, every entry of the
\* ledger has points in 0..24.
C1_PointsInRange ==
    \A k \in DOMAIN g_tag_state :
        g_tag_state[k].points >= 0 /\ g_tag_state[k].points <= 24

\* C1 witness: a tag active in 13 consecutive months, where 26 was clamped to 24.
C1_Witness ==
    \E k \in DOMAIN g_tag_state :
        /\ pol_monthblocks = 1
        /\ g_tag_state[k].blocks_seen = 13
        /\ g_tag_state[k].points = 24

\* C2: the first update ever applied for a tag leaves it with seen = TRUE,
\* points = 2, first_seen_height = height and last_seen_period = height div
\* period_length.
C2_FirstUpdate ==
    [][(UpdateStep /\ conn'.key \notin DOMAIN g_tag_state) =>
          /\ conn'.key \in DOMAIN g_tag_state'
          /\ NewEntry.seen = TRUE
          /\ NewEntry.points = 2
          /\ NewEntry.first_seen_height = conn'.height
          /\ NewEntry.last_seen_month = UpdatePeriod]_vars

\* C2 witness: a tag just sighted for the first time, in a period after period 0.
C2_Witness ==
    /\ conn.pc = "L136"
    /\ conn.key \in DOMAIN g_tag_state
    /\ g_tag_state[conn.key].blocks_seen = 1
    /\ g_tag_state[conn.key].first_seen_height = conn.height
    /\ g_tag_state[conn.key].last_seen_month = 2
    /\ g_tag_state[conn.key].points = 2

\* C3: an update of a seen tag in a later period sets points to
\* clamp(old points - missed + 2, 0, 24) with missed = period -
\* last_seen_period - 1, clamped once, and last_seen_period to the period;
\* with period length 10, updates at heights 5 and 25 leave 3 points.
C3_LaterPeriod ==
    /\ [](\A k \in DOMAIN g_tag_state :
            (/\ pol_monthblocks = 10
             /\ g_tag_state[k].first_seen_height = 5
             /\ g_tag_state[k].last_seen_height = 25
             /\ g_tag_state[k].blocks_seen = 2) => g_tag_state[k].points = 3)
    /\ [][(/\ UpdateStep
           /\ conn'.key \in DOMAIN g_tag_state
           /\ UpdatePeriod > OldEntry.last_seen_month) =>
             /\ NewEntry.points =
                  Clamped(OldEntry.points
                          - (UpdatePeriod - OldEntry.last_seen_month - 1) + 2)
             /\ NewEntry.last_seen_month = UpdatePeriod]_vars

\* C3 witness: period length 10, the tag updated at heights 5 and 25 only.
C3_Witness ==
    /\ pol_monthblocks = 10
    /\ conn.pc = "L136"
    /\ conn.height = 25
    /\ g_tag_state[conn.key].first_seen_height = 5
    /\ g_tag_state[conn.key].blocks_seen = 2
    /\ g_tag_state[conn.key].last_seen_month = 2

\* C4: an update of a seen tag in its last_seen_period leaves points and
\* last_seen_period unchanged.
C4_SamePeriod ==
    [][(/\ UpdateStep
        /\ conn'.key \in DOMAIN g_tag_state
        /\ UpdatePeriod = OldEntry.last_seen_month) =>
          /\ NewEntry.points = OldEntry.points
          /\ NewEntry.last_seen_month = OldEntry.last_seen_month]_vars

\* C4 witness: three blocks of one period carry the tag, which has 2 points.
C4_Witness ==
    /\ conn.pc = "L136"
    /\ pol_monthblocks = 10
    /\ g_tag_state[conn.key].blocks_seen = 3
    /\ g_tag_state[conn.key].first_seen_height \div 10 = conn.height \div 10
    /\ g_tag_state[conn.key].points = 2

\* C5: every applied update sets last_seen_height to the height and
\* last_seen_time to the block time and adds exactly 1 to blocks_seen.
C5_AlwaysStamped ==
    [][UpdateStep =>
          /\ NewEntry.last_seen_height = conn'.height
          /\ NewEntry.last_seen_time = conn'.block_time
          /\ NewEntry.blocks_seen =
               (IF conn'.key \in DOMAIN g_tag_state THEN OldEntry.blocks_seen ELSE 0) + 1]_vars

\* C5 witness: an update in the same period (no change of points) that brought
\* a later block time and a third sighting.
C5_Witness ==
    /\ conn.pc = "L136"
    /\ pol_monthblocks = 10
    /\ g_tag_state[conn.key].blocks_seen = 3
    /\ g_tag_state[conn.key].last_seen_month = 0
    /\ g_tag_state[conn.key].last_seen_height = conn.height
    /\ g_tag_state[conn.key].last_seen_time = 1700000600

-----------------------------------------------------------------------------
(* Claims about the rebuild (SpecChain).                                   *)

RECURSIVE LiveConnect(_, _, _)
\* The table after the live update is applied, in order, to the blocks of
\* chain ch from height h on.
LiveConnect(table, ch, h) ==
    IF h > Len(ch) - 1 THEN table
    ELSE LiveConnect(OnConnectBlock(table, ch[h + 1].block, h, ch[h + 1].time,
                                    pol_startheight, pol_monthblocks),
                     ch, h + 1)

\* The ledger built live over chain ch, from the empty table.
LiveLedger(ch) == LiveConnect(EmptyMap, ch, 0)

RECURSIVE Replay(_, _, _)
\* The table after the update is applied to the blocks of chain ch at
\* heights 0..upto that are not in bad, in height order.
Replay(ch, upto, bad) ==
    IF upto < 0 THEN EmptyMap
    ELSE LET t == Replay(ch, upto - 1, bad)
         IN  IF upto \in bad THEN t
             ELSE OnConnectBlock(t, ch[upto + 1].block, upto, ch[upto + 1].time,
                                 pol_startheight, pol_monthblocks)

\* The heights at or above the start height whose block carries a tag.
TaggedHeights ==
    {h \in 0..TipHeight :
        h >= pol_startheight /\ ExtractMinerTagFromBlock(chain[h + 1].block) # Nullopt}
\* The key of the tag of the block at height h.
KeyAt(h) == HexStr(ExtractMinerTagFromBlock(chain[h + 1].block))
\* The keys of the tags carried by the blocks the rebuild in progress can read.
ReadableKeys == {KeyAt(h) : h \in TaggedHeights \ rb.bad}

\* C6: a rebuild that reads every block ends with the ledger that the live
\* update, applied from the empty table to the same blocks in order, gives.
C6_RebuildEqualsLive ==
    (rb.pc = "R256" /\ rb.bad = {}) => g_tag_state = LiveLedger(chain)

\* C6 witness: a complete rebuild over a chain where both tags were seen, one
\* of them twice, ends; the table it had found was another one.
C6_Witness ==
    /\ rb.pc = "R256"
    /\ rb.bad = {}
    /\ Cardinality(DOMAIN g_tag_state) = 2
    /\ \E k \in DOMAIN g_tag_state : g_tag_state[k].blocks_seen = 2
    /\ rb.before # g_tag_state

\* C7: the rebuild clears the table before it replays, and when it returns
\* the table holds exactly the entries of the tags of the blocks it read at
\* heights start_height..tip; no other entry it had found is left.
C7_RebuildClears ==
    /\ (rb.pc = "R234" /\ rb.height = Max(0, pol_startheight)) => g_tag_state = EmptyMap
    /\ rb.pc = "R256" =>
         /\ DOMAIN g_tag_state = ReadableKeys
         /\ \A k \in DOMAIN g_tag_state :
                g_tag_state[k].blocks_seen =
                    Cardinality({h \in TaggedHeights \ rb.bad : KeyAt(h) = k})
         /\ \A k \in DOMAIN rb.before \ ReadableKeys : k \notin DOMAIN g_tag_state

\* C7 witness: the rebuild returns with a table that lacks an entry it had found.
C7_Witness ==
    /\ rb.pc = "R256"
    /\ g_tag_state # EmptyMap
    /\ \E k \in DOMAIN rb.before : k \notin DOMAIN g_tag_state

\* C8: a rebuild over the chain an earlier rebuild ran over, reading the same
\* blocks, ends with the table the earlier one ended with, whatever table it
\* found.
C8_RebuildIdempotent ==
    (rb.pc = "R256" /\ prev.done /\ prev.bad = rb.bad) => g_tag_state = prev.table

\* C8 witness: the second of two complete rebuilds over one chain ends; the
\* table is not empty and the first had found a table other than its result.
C8_Witness ==
    /\ rb.pc = "R256"
    /\ prev.done
    /\ prev.bad = rb.bad
    /\ rb.before = prev.table
    /\ g_tag_state # EmptyMap
    /\ \E k \in DOMAIN g_tag_state : g_tag_state[k].blocks_seen = 2

\* C9: a block that cannot be read is skipped and the rebuild goes on: it
\* ends with the table that applying the update to the readable blocks alone,
\* in height order, gives.
C9_UnreadableSkipped ==
    rb.pc = "R256" => g_tag_state = Replay(chain, TipHeight, rb.bad)

\* C9 witness: a tagged block could not be read and a tagged block above it
\* was applied.
C9_Witness ==
    /\ rb.pc = "R256"
    /\ \E h \in rb.bad \cap TaggedHeights :
         \E h2 \in TaggedHeights \ rb.bad :
            /\ h2 > h
            /\ KeyAt(h2) \in DOMAIN g_tag_state
            /\ g_tag_state[KeyAt(h2)].last_seen_height = h2

-----------------------------------------------------------------------------
(* Claims about queries that run beside updates (Spec).                    *)

\* What GetMinerTagStatus gives for key on table.
Snapshot(table, key) == IF key \in DOMAIN table THEN Some(table[key]) ELSE Nullopt

\* C10: the snapshot a query takes equals the entry as an update left it or
\* found it, never a state in between, and the snapshot handed to the caller
\* does not change afterwards.
C10_NoTornRead ==
    /\ [](rpc.pc = "L149" => rpc.ret = Snapshot(committed, rpc.key))
    /\ [][(rpc.pc \in {"L149", "returned"} /\ rpc'.pc = "returned")
            => rpc'.ret = rpc.ret]_vars

\* C10 witness: the caller holds a snapshot of an entry while an update of the
\* same tag is half done, and the entry no longer equals the snapshot.
C10_Witness ==
    /\ rpc.pc = "returned"
    /\ rpc.ret # Nullopt
    /\ conn.pc = "L134"
    /\ conn.key = rpc.key
    /\ rpc.key \in DOMAIN g_tag_state
    /\ Some(g_tag_state[rpc.key]) # rpc.ret

-----------------------------------------------------------------------------
(* FairSpec: the node under fair scheduling. A thread that is inside an    *)
(* operation keeps running, and a thread that waits for a lock that is      *)
(* released again and again gets it in the end (strong fairness).           *)

\* The steps of the thread that connects blocks, once it has begun.
ConnOp == ConnectStep \/ ConnectEnd
\* The steps of RebuildFromActiveChain once it holds cs_main.
RbOp ==
    \/ RebuildClear \/ RebuildLoop \/ RebuildStep \/ RebuildNext \/ RebuildLog
    \/ RebuildEnd(FALSE)
\* The steps of a status request once it arrived.
RpcOp ==
    \/ GetTipHeightLock \/ GetTipHeightReturn
    \/ QueryLock \/ QueryFind \/ QueryUnlock \/ QueryDone

\* The connection pipeline of FairSpec: ConnectBegin for a tagged or an
\* untagged block, on a chain of at most MaxFairHeight.
FairConnectBegin ==
    /\ TipHeight < MaxFairHeight
    /\ ConnectBegin
    /\ conn'.block \in {TaggedBlock(TagA), PlainBlock}
    /\ conn'.block_time \in {Genesis.time, 1700000000}

NextFair ==
    \/ FairConnectBegin \/ ConnectStep \/ ConnectEnd
    \/ RebuildBegin(FALSE) \/ RebuildClear \/ RebuildLoop \/ RebuildStep
    \/ RebuildNext \/ RebuildLog \/ RebuildEnd(FALSE)
    \/ QueryBegin \/ GetTipHeightLock \/ GetTipHeightReturn
    \/ QueryLock \/ QueryFind \/ QueryUnlock \/ QueryDone

FairSpec ==
    Init /\ [][NextFair]_vars /\ SF_vars(ConnOp) /\ SF_vars(RbOp) /\ SF_vars(RpcOp)

-----------------------------------------------------------------------------
(* Claims about the locks (Spec, FairSpec).                                *)

\* The statements of OnConnectBlock that run under g_pol_mutex.
LockedRegion ==
    {"L115", "L116", "L117", "L118", "L120", "L123", "L124", "L126", "L127",
     "L128", "L132", "L133", "L134", "L136"}

\* The step is an update taking g_pol_mutex, and the height of that update.
WriterLocks == g_pol_mutex = "free" /\ g_pol_mutex' \in {"conn", "rb"}
WriterHeight == IF g_pol_mutex' = "conn" THEN conn.height ELSE rb.height

\* C11: at most one update is inside the locked region at a time; with the
\* live connection called under cs_main, a rebuild and a live update are
\* never in progress together; and every update that takes the ledger lock
\* has a height above every height applied to the table so far.
C11_WritersOrdered ==
    /\ [](~(conn.pc \in LockedRegion /\ rb.pc \in LockedRegion))
    /\ [](rb.pc # "idle" => (conn.pc = "idle" /\ cs_main = "rb"))
    /\ [](conn.pc # "idle" => (rb.pc = "idle" /\ cs_main = "conn"))
    /\ [][WriterLocks => WriterHeight > LastApplied(g_tag_state)]_vars

\* C11 witness: the rebuild is inside the update of height 2 after it applied
\* height 1, the connecting thread is idle, and a query waits for the lock.
C11_Witness ==
    /\ rb.pc = "L132"
    /\ rb.height = 2
    /\ LastApplied(g_tag_state) = 1
    /\ g_pol_mutex = "rb"
    /\ cs_main = "rb"
    /\ conn.pc = "idle"
    /\ rpc.pc = "L144"

\* A step of an operation in progress.
OperationStep == ConnOp \/ RbOp \/ RpcOp
\* Some operation is in progress.
OperationInProgress == conn.pc # "idle" \/ rb.pc # "idle" \/ rpc.pc # "idle"

\* C12: outside the locked statements no thread holds g_pol_mutex, so every
\* update, query and rebuild has released it when it returns; no thread
\* takes cs_main while it holds g_pol_mutex; whenever an operation is in
\* progress some operation can take a step; and under fair scheduling every
\* operation that started returns.
C12_NoStuckLock ==
    /\ [](/\ conn.pc \notin LockedRegion => g_pol_mutex # "conn"
          /\ rb.pc \notin LockedRegion => g_pol_mutex # "rb"
          /\ rpc.pc \notin {"L146", "L149"} => g_pol_mutex # "rpc"
          /\ ~OperationInProgress => (g_pol_mutex = "free" /\ cs_main = "free"))
    /\ [][(cs_main' # cs_main /\ cs_main' # "free") => g_pol_mutex # cs_main']_vars
    /\ [](OperationInProgress => ENABLED OperationStep)
    /\ (conn.pc # "idle") ~> (conn.pc = "idle")
    /\ (rb.pc # "idle") ~> (rb.pc = "idle")
    /\ (rpc.pc # "idle") ~> (rpc.pc = "idle")

\* C12 witness: all three threads are inside an operation; the query holds
\* the ledger lock, the rebuild holds cs_main and waits for the ledger lock.
C12_Witness ==
    /\ rpc.pc = "L146"
    /\ g_pol_mutex = "rpc"
    /\ rb.pc = "L112"
    /\ cs_main = "rb"
    /\ TipHeight = 1

-----------------------------------------------------------------------------
(* Claims about the subsidy calculator (SpecSubsidy).                      *)

\* The tag the request in rpc asked for, and the score the ledger holds for
\* it: the points of its entry, 0 without an entry.
RequestTag == CHOOSE t \in {TagA, TagB} : HexStr(t) = rpc.key
RequestPoints ==
    IF rpc.key \in DOMAIN g_tag_state THEN g_tag_state[rpc.key].points ELSE 0
\* The ledger with the score of the requested tag set to q.
LedgerWithPoints(q) ==
    Store(g_tag_state, rpc.key,
          [EntryRef(g_tag_state, rpc.key) EXCEPT !.seen = TRUE, !.points = q])

\* C13: the allowed subsidy is base + floor(loyal_half * points / 24) with
\* base = floor(schedule(height) / 2), loyal_half = schedule(height) - base
\* and points the score of the tag, 0 for a tag never seen.
C13_AllowedSubsidy ==
    rpc.pc = "returned" =>
        LET schedule == GetBlockSubsidy(rpc.height)
            base == schedule \div 2
            loyal_half == schedule - base
        IN  rpc.allowed = base + ((loyal_half * RequestPoints) \div 24)

\* C13 witness: schedule 25 (base 12, loyal half 13) and 3 points: 13 allowed.
C13_Witness ==
    /\ rpc.pc = "returned"
    /\ GetBlockSubsidy(rpc.height) = 25
    /\ rpc.ret # Nullopt
    /\ rpc.ret[1].points = 3
    /\ rpc.allowed = 13

\* C14: at the height of a request, the allowed subsidy computed for the
\* score p of the ledger is not greater than the one for any score q >= p in
\* 0..24 and not less than the one for any score q <= p.
C14_MonotonicInPoints ==
    rpc.pc = "returned" =>
        \A q \in 0..24 :
            LET at_q == GetAllowedSubsidy(LedgerWithPoints(q), RequestTag, rpc.height)
            IN  /\ RequestPoints <= q => rpc.allowed <= at_q
                /\ q <= RequestPoints => at_q <= rpc.allowed

\* C14 witness: schedule 101 and 12 points: 75 allowed, between base and schedule.
C14_Witness ==
    /\ rpc.pc = "returned"
    /\ GetBlockSubsidy(rpc.height) = 101
    /\ RequestPoints = 12
    /\ rpc.allowed = 75

\* C15: with 0 points or for a tag never seen the allowed subsidy equals
\* GetBaseSubsidy(height); with 24 points it equals the schedule value.
C15_EndPoints ==
    rpc.pc = "returned" =>
        /\ (rpc.ret = Nullopt \/ RequestPoints = 0) =>
              (rpc.allowed = rpc.base /\ rpc.base = GetBaseSubsidy(rpc.height))
        /\ RequestPoints = 24 => rpc.allowed = GetBlockSubsidy(rpc.height)

\* C15 witness: an odd schedule value, 101, granted in full to a tag with 24
\* points; the base subsidy at that height is 50.
C15_Witness ==
    /\ rpc.pc = "returned"
    /\ GetBlockSubsidy(rpc.height) = 101
    /\ rpc.ret # Nullopt
    /\ rpc.ret[1].points = 24
    /\ rpc.allowed = 101
    /\ rpc.base = 50

-----------------------------------------------------------------------------
(* Claims about the entries of the ledger (SpecLedger, Spec).              *)

\* The heights whose block carries a tag, whatever the start height.
CarrierHeights ==
    {h \in 0..TipHeight : ExtractMinerTagFromBlock(chain[h + 1].block) # Nullopt}

\* C16 as stated: blocks_seen of every tag of the ledger equals the number of
\* connected blocks that carry the tag.
C16_Original ==
    \A k \in DOMAIN g_tag_state :
        g_tag_state[k].blocks_seen = Cardinality({h \in CarrierHeights : KeyAt(h) = k})

\* C16: after any sequence of block connections at increasing heights,
\* blocks_seen of every tag of the ledger equals the number of connected
\* blocks at or above the start height that carry the tag, and every tag
\* such a block carries has an entry.
C16_BlocksSeenCounts ==
    /\ \A k \in DOMAIN g_tag_state :
          g_tag_state[k].blocks_seen = Cardinality({h \in TaggedHeights : KeyAt(h) = k})
    /\ \A h \in TaggedHeights : KeyAt(h) \in DOMAIN g_tag_state

\* C16 witness: under start height 2 a tag is carried by the blocks at heights
\* 1, 2 and 4 and counts 2 blocks; the block at height 3 carries the other tag.
C16_Witness ==
    /\ pol_startheight = 2
    /\ TipHeight = 4
    /\ KeyAt(1) = HexStr(TagA) /\ KeyAt(2) = HexStr(TagA) /\ KeyAt(4) = HexStr(TagA)
    /\ KeyAt(3) = HexStr(TagB)
    /\ g_tag_state[HexStr(TagA)].blocks_seen = 2
    /\ g_tag_state[HexStr(TagB)].blocks_seen = 1

AllDefaults(e) ==
    /\ e.first_seen_height = -1
    /\ e.last_seen_height = -1
    /\ e.blocks_seen = 0
    /\ e.last_seen_time = 0
    /\ e.points = 0
    /\ e.last_seen_month = -1

\* C18: in every state, an entry of the ledger with seen = FALSE has all
\* other fields at their defaults, and so has the status a request reports
\* from the snapshot a query returned.
C18_UnseenIsDefault ==
    /\ \A k \in DOMAIN g_tag_state : ~g_tag_state[k].seen => AllDefaults(g_tag_state[k])
    /\ rpc.pc \in {"L149", "returned"} =>
          (~StatusOf(rpc.ret).seen => AllDefaults(StatusOf(rpc.ret)))

\* C18 witness: an update has just created the entry of its tag, which is not
\* seen yet, and a request holds the status of a tag that has no entry.
C18_Witness ==
    /\ conn.pc = "L115"
    /\ ~g_tag_state[conn.key].seen
    /\ rpc.pc = "returned"
    /\ rpc.ret = Nullopt
    /\ ~StatusOf(rpc.ret).seen

\* The step is line 113 of the update of thread frame fr for key k.
CreatesEntry(fr, fr2, k) == fr.pc = "L112" /\ fr2.pc = "L115" /\ fr.key = k

\* C19: the ledger starts empty; a key enters it only in the step of an
\* update for that key that finds no entry; and no key leaves it except by
\* the clear of a rebuild, so that without a rebuild the set of keys grows.
C19_KeysOnlyGrow ==
    /\ g_tag_state = EmptyMap
    /\ [][\A k \in DOMAIN g_tag_state' \ DOMAIN g_tag_state :
             CreatesEntry(conn, conn', k) \/ CreatesEntry(rb, rb', k)]_vars
    /\ [][\/ DOMAIN g_tag_state \subseteq DOMAIN g_tag_state'
          \/ (rb.pc = "R226" /\ rb'.pc = "R234" /\ g_tag_state' = EmptyMap)]_vars

\* C19 witness: the update of a second tag has just created its entry beside
\* the entry of the first, after a query for that tag had found nothing.
C19_Witness ==
    /\ conn.pc = "L115"
    /\ Cardinality(DOMAIN g_tag_state) = 2
    /\ rpc.pc = "returned"
    /\ rpc.key = conn.key
    /\ rpc.ret = Nullopt

\* C20: a call of OnConnectBlock for a block below the start height, tagged
\* or not, or for a block that carries no tag, leaves the ledger as it was.
C20_InertCalls ==
    [][(/\ chain' # chain
        /\ \/ conn'.height < pol_startheight
           \/ ExtractMinerTagFromBlock(conn'.block) = Nullopt)
          => g_tag_state' = g_tag_state]_vars

\* C20 witness: under start height 2 the call for a tagged block at height 1
\* has returned and the ledger holds no entry.
C20_Witness ==
    /\ pol_startheight = 2
    /\ conn.pc = "ret"
    /\ conn.height = 1
    /\ ExtractMinerTagFromBlock(conn.block) = TagA
    /\ g_tag_state = EmptyMap

-----------------------------------------------------------------------------
(* Claims about the queries (SpecSubsidy).                                 *)

\* The step is a status request: GetMinerTagStatus, GetAllowedSubsidy and
\* GetBaseSubsidy for the key and height of rpc'.
RequestStep == rpc.pc = "idle" /\ rpc'.pc = "returned"

\* C21: a request (GetMinerTagStatus, GetAllowedSubsidy, GetBaseSubsidy)
\* leaves every entry and the set of keys as they were, and for a tag without
\* an entry it returns nothing and creates no entry.
C21_QueriesDoNotMutate ==
    [][RequestStep =>
          /\ g_tag_state' = g_tag_state
          /\ DOMAIN g_tag_state' = DOMAIN g_tag_state
          /\ rpc'.key \notin DOMAIN g_tag_state =>
                (rpc'.ret = Nullopt /\ rpc'.key \notin DOMAIN g_tag_state')]_vars

\* C21 witness: a request for a tag never seen returned nothing and got the
\* base subsidy; the ledger holds the entry of the other tag only.
C21_Witness ==
    /\ rpc.pc = "returned"
    /\ rpc.key = HexStr(TagB)
    /\ rpc.ret = Nullopt
    /\ rpc.allowed = rpc.base
    /\ DOMAIN g_tag_state = {HexStr(TagA)}
    /\ g_tag_state[HexStr(TagA)].points = 5

-----------------------------------------------------------------------------
(* The level shown for a tag: PolLevelFromPoints of the RPC, of the loyalty *)
(* page and of the overview page.                                           *)

IntMax == 2147483647
IntMin == -IntMax - 1

\* rpc/pol.cpp: int PolLevelFromPoints(bool seen, int points)
PolLevelRoundedDown(seen, points) ==
    IF ~seen \/ points <= 0 THEN 0
    ELSE LET p == IF points > 24 THEN 24 ELSE points
             level == p \div 2
         IN  Min(12, Max(0, level))
PolLevelFromPoints(seen, points) ==
    IF ~seen \/ points <= 0 THEN 0
    ELSE LET p == IF points > 24 THEN 24 ELSE points
             level == (p + 1) \div 2
         IN  Min(12, Max(0, level))

\* qt/loyalitypage.cpp line 75 for points == INT_MAX: points + 1 overflows
\* int, which is undefined.  The builds give 0 (the sum wraps to INT_MIN, its
\* half is negative and line 76 raises it to 0), the negative half itself
\* (the sum wraps and the test of line 76 is removed, since points > 0), or
\* 12 (the sum is formed in a wider register).
SignedOverflowLevels == {0, IntMin \div 2, 12}

\* qt/loyalitypage.cpp: int PolLevelFromPoints(int points, bool seen); the
\* set of the values a call can return.
LoyaltyPagePolLevelFromPoints(points, seen) ==
    IF ~seen THEN {0}
    ELSE IF points <= 0 THEN {0}
    ELSE IF points = IntMax THEN SignedOverflowLevels
    ELSE LET lvl == (points + 1) \div 2
         IN  {IF lvl < 0 THEN 0 ELSE IF lvl > 12 THEN 12 ELSE lvl}

\* overview page: int PolLevelFromPoints(bool seen, int points)
OverviewPolLevelFromPoints(seen, points) ==
    IF ~seen \/ points <= 0 THEN 0
    ELSE LET p == IF points > 24 THEN 24 ELSE points
         IN  Min(12, Max(0, (p + 1) \div 2))

-----------------------------------------------------------------------------
(* SpecLevel: the three level derivations applied to the same (seen,       *)
(* points) pair, drawn from the int range around 0 and 24 and at its ends.  *)

MaxLevelPoints == 30

LevelPoints ==
    (-MaxLevelPoints .. MaxLevelPoints) \cup {IntMin, IntMin + 1, IntMax - 1, IntMax}

InitLevel == Init

\* level = PolLevelFromPoints(st.seen, st.points) of getpoladdressstatus, and
\* m_pol_level of the two pages for the same pair.
LevelCall ==
    \E seen \in BOOLEAN, points \in LevelPoints :
      \E page \in LoyaltyPagePolLevelFromPoints(points, seen) :
        /\ rpc' = [pc |-> "level", seen |-> seen, points |-> points,
                   level |-> PolLevelFromPoints(seen, points),
                   page_level |-> page,
                   overview_level |-> OverviewPolLevelFromPoints(seen, points)]
        /\ UNCHANGED <<pol_startheight, pol_monthblocks, chain, g_tag_state,
                       g_pol_mutex, cs_main, conn, rb, committed, prev>>

NextLevel == LevelCall

SpecLevel == InitLevel /\ [][NextLevel]_vars

\* C22: the level of the RPC is in 0..12; it is 0 when seen is false or
\* points <= 0, and otherwise the least n with 2n >= points, limited to
\* 1..12: (true,1) and (true,2) give 1, (true,3) gives 2, (true,24) gives 12.
C22_Level ==
    rpc.pc = "level" =>
      /\ rpc.level \in 0 .. 12
      /\ (~rpc.seen \/ rpc.points <= 0) => rpc.level = 0
      /\ (rpc.seen /\ rpc.points > 0) =>
           /\ rpc.level \in 1 .. 12
           /\ rpc.points <= 24 =>
                (2 * rpc.level >= rpc.points /\ 2 * (rpc.level - 1) < rpc.points)
           /\ rpc.points > 24 => rpc.level = 12
      /\ (rpc.seen /\ rpc.points \in {1, 2}) => rpc.level = 1
      /\ (rpc.seen /\ rpc.points = 3) => rpc.level = 2
      /\ (rpc.seen /\ rpc.points = 24) => rpc.level = 12

\* C22 witness: the level of a seen tag with 3 points is 2.
C22_Witness ==
    rpc.pc = "level" /\ rpc.seen /\ rpc.points = 3 /\ rpc.level = 2

\* C23: the RPC, the loyalty page and the overview page give the same level
\* for every (seen, points) pair.
C23_SameLevel ==
    rpc.pc = "level" =>
      (rpc.level = rpc.page_level /\ rpc.level = rpc.overview_level)

-----------------------------------------------------------------------------
(* SpecExtract: ExtractMinerTagFromBlock applied to blocks whose coinbase   *)
(* outputs are well and badly formed in every way the loop tells apart.     *)

MaxOutputs == 3

Tag8 == <<1, 2, 3, 4, 5, 6, 7, 8>>

\* Scripts of coinbase outputs, one or more for each test of the loop body.
ExtractScripts ==
    { <<>>,                                          \* no first element
      <<Trunc>>,                                     \* first element cut short
      <<OpDup, Push(<<1, 2, 3>>)>>,                  \* first opcode not OP_RETURN
      <<OpReturn>>,                                  \* nothing after OP_RETURN
      <<OpReturn, Trunc>>,                           \* push cut short
      <<OpReturn, OpDup>>,                           \* no push data
      <<OpReturn, Push(<<77, 70, 76>>)>>,            \* shorter than the prefix
      <<OpReturn, Push(kMflexId)>>,                  \* prefix only
      <<OpReturn, Push(kMflexId \o <<1, 2, 3>>)>>,   \* 3 tag bytes
      <<OpReturn, Push(<<77, 70, 76, 69, 88, 73, 69>> \o TagB)>>,  \* wrong prefix
      <<OpReturn, Push(kMflexId \o <<1, 2, 3, 4, 5>>)>>,           \* 5 tag bytes
      <<OpReturn, Push(kMflexId \o TagA \o <<9>>)>>,               \* 13 tag bytes
      <<OpReturn, Push(kMflexId \o TagB)>>,          \* 4 tag bytes
      <<OpReturn, Push(kMflexId \o Tag8)>>,          \* 8 tag bytes
      <<OpReturn, Push(kMflexId \o TagA)>>,          \* 12 tag bytes
      <<OpReturn, Push(kMflexId \o TagB), OpDup>> }  \* elements after the push

ExtractOutputs == {[scriptPubKey |-> spk] : spk \in ExtractScripts}

\* Blocks without transactions, with a coinbase without outputs, and with a
\* coinbase of 1..MaxOutputs outputs.
ExtractBlocks ==
    {[vtx |-> <<>>], [vtx |-> <<[vout |-> <<>>]>>]}
    \cup {[vtx |-> <<[vout |-> vout]>>] :
            vout \in UNION {[1 .. n -> ExtractOutputs] : n \in 1 .. MaxOutputs}}

InitExtract == Init

\* tag = ExtractMinerTagFromBlock(block)
ExtractCall ==
    /\ conn.pc = "idle"
    /\ \E block \in ExtractBlocks :
          conn' = [pc |-> "extracted", block |-> block,
                   tag |-> ExtractMinerTagFromBlock(block)]
    /\ UNCHANGED <<pol_startheight, pol_monthblocks, chain, g_tag_state,
                   g_pol_mutex, cs_main, rb, rpc, committed, prev>>

\* The caller is done with the tag.
ExtractDone ==
    /\ conn.pc = "extracted"
    /\ conn' = ConnIdle
    /\ UNCHANGED <<pol_startheight, pol_monthblocks, chain, g_tag_state,
                   g_pol_mutex, cs_main, rb, rpc, committed, prev>>

NextExtract == ExtractCall \/ ExtractDone

SpecExtract == InitExtract /\ [][NextExtract]_vars

\* The output qualifies: OP_RETURN, then a push of MFLEXID and 4, 8 or 12
\* further bytes.
Qualifies(out) ==
    LET spk == out.scriptPubKey
    IN  /\ Len(spk) >= 2
        /\ spk[1].op = "OP_RETURN"
        /\ spk[2].op = "PUSH"
        /\ Len(spk[2].push) \in {Len(kMflexId) + 4, Len(kMflexId) + 8, Len(kMflexId) + 12}
        /\ SubSeq(spk[2].push, 1, Len(kMflexId)) = kMflexId

\* The positions of the qualifying outputs of the coinbase of the block.
QualifyingOutputs(block) ==
    IF Len(block.vtx) = 0 THEN {}
    ELSE {i \in 1 .. Len(block.vtx[1].vout) : Qualifies(block.vtx[1].vout[i])}

\* C24: the extractor returns the bytes after MFLEXID of the first coinbase
\* output that qualifies, whatever outputs come before it (script ending
\* early, other first opcode, wrong prefix, wrong length), and nothing when
\* no output qualifies, the block has no transactions or the coinbase has no
\* outputs.
C24_FirstQualifyingOutput ==
    conn.pc = "extracted" =>
      LET q == QualifyingOutputs(conn.block)
      IN  IF q = {} THEN conn.tag = Nullopt
          ELSE LET i == CHOOSE j \in q : \A k \in q : j <= k
                   push == conn.block.vtx[1].vout[i].scriptPubKey[2].push
               IN  /\ conn.tag = SubSeq(push, Len(kMflexId) + 1, Len(push))
                   /\ Len(conn.tag) \in {4, 8, 12}

\* C24 witness: after an output whose script ends early and one with a wrong
\* prefix, the 8-byte tag of the third output is returned.
C24_Witness ==
    /\ conn.pc = "extracted"
    /\ Len(conn.block.vtx) = 1
    /\ Len(conn.block.vtx[1].vout) = 3
    /\ conn.block.vtx[1].vout[1].scriptPubKey = <<OpReturn>>
    /\ ~Qualifies(conn.block.vtx[1].vout[2])
    /\ Len(conn.block.vtx[1].vout[2].scriptPubKey) = 2
    /\ Len(conn.block.vtx[1].vout[2].scriptPubKey[2].push) = Len(kMflexId) + 4
    /\ conn.tag = Tag8

-----------------------------------------------------------------------------
(* SpecPeriod: updates at increasing heights under positive, zero and      *)
(* negative values of -pol_monthblocks.                                     *)

MaxPeriodHeight == 8

PeriodMonthBlocks == {-1, 0, 2}

InitPeriod ==
    /\ pol_startheight = DefaultStartHeight
    /\ pol_monthblocks \in PeriodMonthBlocks
    /\ chain = <<>>
    /\ g_tag_state = EmptyMap
    /\ g_pol_mutex = "free"
    /\ cs_main = "free"
    /\ conn = ConnIdle
    /\ rb = RbIdle
    /\ rpc = RpcIdle
    /\ committed = EmptyMap
    /\ prev = PrevNone

\* OnConnectBlock for a tagged block of TagA or TagB.
PeriodUpdate ==
    \E tag \in {TagA, TagB}, height \in 0 .. MaxPeriodHeight :
        /\ height > LastApplied(g_tag_state)
        /\ Applies(TaggedBlock(tag), height, pol_startheight)
        /\ g_tag_state' = OnConnectBlock(g_tag_state, TaggedBlock(tag), height, 1700000000,
                                         pol_startheight, pol_monthblocks)
        /\ conn' = [pc |-> "L136"]
                   @@ Frame(TaggedBlock(tag), height, 1700000000, pol_monthblocks)
        /\ UNCHANGED <<pol_startheight, pol_monthblocks, chain, g_pol_mutex, cs_main,
                       rb, rpc, committed, prev>>

NextPeriod == PeriodUpdate

SpecPeriod == InitPeriod /\ [][NextPeriod]_vars

\* C25: the period an update uses is height div period_length for a positive
\* period length and 0 for a period length of 0 or less; it is not below the
\* period of the tag's previous update, which was at a lower height; and
\* under a period length of 0 or less every update leaves the tag with
\* exactly 2 points.
C25_Period ==
    [][UpdateStep =>
          /\ pol_monthblocks > 0 => conn'.cur_month = conn'.height \div pol_monthblocks
          /\ pol_monthblocks <= 0 => conn'.cur_month = 0
          /\ conn'.key \in DOMAIN g_tag_state =>
                /\ OldEntry.last_seen_height < conn'.height
                /\ OldEntry.last_seen_month <= conn'.cur_month
          /\ NewEntry.last_seen_month = conn'.cur_month
          /\ pol_monthblocks <= 0 => NewEntry.points = 2]_vars

\* C25 witness: under a period length of 0 a tag was seen at three heights,
\* the last 6 blocks after the first, and has 2 points.
C25_Witness ==
    /\ pol_monthblocks = 0
    /\ HexStr(TagB) \in DOMAIN g_tag_state
    /\ g_tag_state[HexStr(TagB)].blocks_seen = 3
    /\ g_tag_state[HexStr(TagB)].first_seen_height = 2
    /\ g_tag_state[HexStr(TagB)].last_seen_height = 8
    /\ g_tag_state[HexStr(TagB)].points = 2

-----------------------------------------------------------------------------
(* SpecRebuild: RebuildFromActiveChain over a chain that is there from the *)
(* start, as at a restart; the thread that runs it is scheduled fairly.     *)

MaxRebuildHeight == 3

\* Values of -pol_startheight the rebuild runs under.
RebuildStartHeights == {-1, DefaultStartHeight, 2}

RECURSIVE ChainsOfLength(_)
\* The chains of n blocks: the genesis block, then tagged and plain blocks.
ChainsOfLength(n) ==
    IF n = 0 THEN {<<>>}
    ELSE IF n = 1 THEN {<<Genesis>>}
    ELSE {Append(c, [block |-> b, time |-> 1700000000]) :
             c \in ChainsOfLength(n - 1), b \in {TaggedBlock(TagA), PlainBlock}}

InitRebuild ==
    /\ pol_startheight \in RebuildStartHeights
    /\ pol_monthblocks \in ChainMonthBlocks
    /\ chain \in UNION {ChainsOfLength(n) : n \in 0 .. MaxRebuildHeight + 1}
    /\ g_tag_state = EmptyMap
    /\ g_pol_mutex = "free"
    /\ cs_main = "free"
    /\ conn = ConnIdle
    /\ rb = RbIdle
    /\ rpc = RpcIdle
    /\ committed = EmptyMap
    /\ prev = PrevNone

NextRebuild ==
    \/ RebuildBegin(FALSE) \/ RebuildClear \/ RebuildLoop \/ RebuildStep
    \/ RebuildNext \/ RebuildLog \/ RebuildEnd(FALSE)

SpecRebuild == InitRebuild /\ [][NextRebuild]_vars /\ WF_vars(RbOp)

\* C26: the loop of a rebuild starts at max(0, start_height), every change of
\* its height is a step up by one from a height not above the tip, readable
\* or not, tagged or not, it is left only from the height after the tip (or
\* from the first height when that is beyond the tip), and every rebuild that
\* started returns.
C26_RebuildCompletes ==
    /\ [][(rb.pc = "R226" /\ rb'.pc = "R234") =>
             rb'.height = Max(0, pol_startheight)]_vars
    /\ [][(rb.pc \notin {"idle", "R226", "R256"} /\ rb'.height # rb.height) =>
             (rb.height <= rb.tip /\ rb'.height = rb.height + 1)]_vars
    /\ [][(rb.pc = "R234" /\ rb'.pc = "R252") =>
             rb.height = Max(rb.tip + 1, Max(0, pol_startheight))]_vars
    /\ (rb.pc # "idle" ~> rb.pc = "idle")

\* C26 witness: a rebuild from height 0 over a chain with tip 3 is at the end
\* of its loop, with the block at height 1 unreadable, a plain block at
\* height 2 and the tag found at height 3.
C26_Witness ==
    /\ rb.pc = "R252"
    /\ pol_startheight = -1
    /\ rb.tip = 3
    /\ rb.height = 4
    /\ rb.bad = {1}
    /\ chain[3].block = PlainBlock
    /\ DOMAIN g_tag_state = {HexStr(TagA)}
    /\ g_tag_state[HexStr(TagA)].first_seen_height = 3

-----------------------------------------------------------------------------
(* The parameters of the RPCs. A std::string is a sequence of characters.   *)

DigitChars == {"0", "1", "2", "3", "4", "5", "6", "7", "8", "9"}
HexChars == DigitChars \cup {"a", "b", "c", "d", "e", "f", "A", "B", "C", "D", "E", "F"}
UpperHexDigits == <<"0", "1", "2", "3", "4", "5", "6", "7",
                    "8", "9", "A", "B", "C", "D", "E", "F">>
\* std::isspace
SpaceChars == {" ", "\t"}

\* HexDigit(c): the value of a hex character.
HexDigit(c) ==
    IF \E i \in 1 .. 16 : HexDigits[i] = c
    THEN (CHOOSE i \in 1 .. 16 : HexDigits[i] = c) - 1
    ELSE (CHOOSE i \in 1 .. 16 : UpperHexDigits[i] = c) - 1

\* IsHex(str): only hex characters, not empty, an even number of them.
IsHex(str) ==
    /\ \A i \in 1 .. Len(str) : str[i] \in HexChars
    /\ Len(str) > 0
    /\ Len(str) % 2 = 0

RECURSIVE ParseHex(_)
\* ParseHex(str): one byte per pair of hex characters, up to the first pair
\* that is not one.
ParseHex(str) ==
    IF Len(str) < 2 \/ str[1] \notin HexChars \/ str[2] \notin HexChars THEN <<>>
    ELSE <<16 * HexDigit(str[1]) + HexDigit(str[2])>> \o ParseHex(SubSeq(str, 3, Len(str)))

\* The outcome of a call that throws JSONRPCError(code, message).
JSONRPCError(code, message) == [ok |-> FALSE, code |-> code, message |-> message]
\* The outcome of a call that returns value.
Returns(value) == [ok |-> TRUE, value |-> value]

\* ParseMinerTagHex(tag_hex)
ParseMinerTagHexAnyChars(tag_hex) ==
    LET n == Len(tag_hex)
    IN  IF ~(n = 8 \/ n = 16 \/ n = 24)
        THEN JSONRPCError("RPC_INVALID_PARAMETER",
                          "miner_tag_hex must be 4, 8 or 12 bytes (8/16/24 hex chars)")
        ELSE Returns(ParseHex(tag_hex))
ParseMinerTagHex(tag_hex) ==
    LET n == Len(tag_hex)
    IN  IF ~(n = 8 \/ n = 16 \/ n = 24)
        THEN JSONRPCError("RPC_INVALID_PARAMETER",
                          "miner_tag_hex must be 4, 8 or 12 bytes (8/16/24 hex chars)")
        ELSE IF ~IsHex(tag_hex)
        THEN JSONRPCError("RPC_INVALID_PARAMETER", "miner_tag_hex must be hex")
        ELSE Returns(ParseHex(tag_hex))

\* A magnitude above INT_MAX.
AboveIntMax == -1

RECURSIVE Magnitude(_, _, _)
\* The value of the digits of s from position i on, AboveIntMax when it does
\* not fit an int.
Magnitude(s, i, acc) ==
    IF i > Len(s) \/ s[i] \notin DigitChars THEN acc
    ELSE LET d == HexDigit(s[i])
         IN  IF acc = AboveIntMax \/ acc > (IntMax - d) \div 10
             THEN Magnitude(s, i + 1, AboveIntMax)
             ELSE Magnitude(s, i + 1, 10 * acc + d)

\* The digits of LLONG_MAX and of -LLONG_MIN.
LLongMaxDigits == <<9, 2, 2, 3, 3, 7, 2, 0, 3, 6, 8, 5, 4, 7, 7, 5, 8, 0, 7>>
LLongMinDigits == <<9, 2, 2, 3, 3, 7, 2, 0, 3, 6, 8, 5, 4, 7, 7, 5, 8, 0, 8>>

\* The digit sequence a (no leading zeros) is a number above that of b.
DigitsAbove(a, b) ==
    \/ Len(a) > Len(b)
    \/ /\ Len(a) = Len(b)
       /\ \E i \in 1 .. Len(a) :
            /\ a[i] > b[i]
            /\ \A j \in 1 .. i - 1 : a[j] = b[j]

\* std::stoll(s, &idx, 10): leading white space, an optional sign, decimal
\* digits. Throws std::invalid_argument without a digit and std::out_of_range
\* beyond long long; x is the value when it fits an int, AboveIntMax for more.
Stoll(s) ==
    LET nonspace == {i \in 1 .. Len(s) : s[i] \notin SpaceChars}
        i0 == IF nonspace = {} THEN Len(s) + 1
              ELSE CHOOSE i \in nonspace : \A j \in nonspace : i <= j
        signed == i0 <= Len(s) /\ s[i0] \in {"+", "-"}
        negative == signed /\ s[i0] = "-"
        i1 == IF signed THEN i0 + 1 ELSE i0
        nondigit == {i \in i1 .. Len(s) : s[i] \notin DigitChars}
        end == IF nondigit = {} THEN Len(s) + 1
               ELSE CHOOSE i \in nondigit : \A j \in nondigit : i <= j
        nonzero == {i \in i1 .. end - 1 : s[i] # "0"}
        first == IF nonzero = {} THEN end
                 ELSE CHOOSE i \in nonzero : \A j \in nonzero : i <= j
        digits == [i \in 1 .. end - first |-> HexDigit(s[first + i - 1])]
    IN  IF end = i1 THEN [thrown |-> "std::invalid_argument"]
        ELSE IF DigitsAbove(digits, IF negative THEN LLongMinDigits ELSE LLongMaxDigits)
        THEN [thrown |-> "std::out_of_range"]
        ELSE [thrown |-> "", idx |-> end - 1, negative |-> negative /\ nonzero # {},
              x |-> Magnitude(s, i1, 0)]

\* ParseHeightFlexible(v), v a UniValue of type num (an int), str or another.
ParseHeightFlexible(v) ==
    IF v.type = "num" THEN Returns(v.num)
    ELSE IF v.type = "str" THEN
        LET s == v.str
            r == Stoll(s)
        IN  IF Len(s) = 0
            THEN JSONRPCError("RPC_INVALID_PARAMETER", "height must be a number")
            ELSE IF r.thrown # "" \/ r.idx # Len(s)
            THEN JSONRPCError("RPC_INVALID_PARAMETER", "height must be a number")
            ELSE IF r.negative \/ r.x = AboveIntMax
            THEN JSONRPCError("RPC_INVALID_PARAMETER", "height out of range")
            ELSE Returns(r.x)
    ELSE JSONRPCError("RPC_INVALID_PARAMETER", "height must be a number")

-----------------------------------------------------------------------------
(* SpecParse: getpolallowedtag called with well and badly formed            *)
(* parameters, between block connections.                                   *)

MaxParseHeight == 1
MaxHexLen == 25

\* Values of the miner_tag_hex parameter: the leading parts of a hex string,
\* the key of TagB in lower and in upper case, and the strings of 8, 16 and
\* 24 characters among them with one character replaced.
HexStringsOfTagLength ==
    {SubSeq(HexStr(TagA) \o HexStr(TagB), 1, n) : n \in {8, 16, 24}}
    \cup {HexStr(TagB), <<"D", "E", "A", "D", "B", "E", "E", "F">>}

TagHexStrings ==
    {SubSeq(HexStr(TagA) \o HexStr(TagB), 1, n) : n \in 0 .. MaxHexLen}
    \cup HexStringsOfTagLength
    \cup {[s EXCEPT ![i] = c] :
             s \in HexStringsOfTagLength, i \in {1, 2, 8}, c \in {"g", " ", "-"}}

\* Values of the height parameter passed as a string.
HeightStrings ==
    { <<>>,   \* empty
      <<"0">>,   \* zero
      <<"7">>,
      <<"0", "0", "7">>,   \* leading zeros
      <<"1", "2">>,
      <<"2", "1", "4", "7", "4", "8", "3", "6", "4", "7">>,   \* INT_MAX
      <<"2", "1", "4", "7", "4", "8", "3", "6", "4", "8">>,   \* INT_MAX + 1
      <<"0", "2", "1", "4", "7", "4", "8", "3", "6", "4", "8">>,
      <<"9", "2", "2", "3", "3", "7", "2", "0", "3", "6", "8", "5", "4", "7", "7", "5", "8", "0", "7">>,   \* LLONG_MAX
      <<"9", "2", "2", "3", "3", "7", "2", "0", "3", "6", "8", "5", "4", "7", "7", "5", "8", "0", "8">>,   \* LLONG_MAX + 1
      <<"9", "9", "9", "9", "9", "9", "9", "9", "9", "9", "9", "9", "9", "9", "9", "9", "9", "9", "9", "9">>,   \* 20 digits
      <<"-", "1">>,   \* negative
      <<"-", "0">>,   \* minus zero
      <<"-", "2", "1", "4", "7", "4", "8", "3", "6", "4", "9">>,
      <<"-", "9", "2", "2", "3", "3", "7", "2", "0", "3", "6", "8", "5", "4", "7", "7", "5", "8", "0", "9">>,   \* below LLONG_MIN
      <<"+", "5">>,   \* plus sign
      <<" ", "5">>,   \* leading space
      <<"\t", "1", "2">>,   \* leading tab
      <<"5", " ">>,   \* trailing space
      <<"5", "x">>,   \* trailing letter
      <<"1", "2", "a">>,
      <<"1", ".", "5">>,   \* trailing fraction
      <<"1", "e", "3">>,
      <<"0", "x", "1", "0">>,
      <<"x", "5">>,   \* no digit first
      <<"a", "b", "c">>,   \* letters
      <<"-">>,
      <<"+">>,
      <<" ">>,   \* space only
      <<"-", "-", "1">>,
      <<"+", "-", "1">>,
      <<"-", " ", "1">> }

\* Values of request.params[1]: strings, numbers and a value of another type.
HeightParams ==
    {[type |-> "str", str |-> s] : s \in HeightStrings}
    \cup {[type |-> "num", num |-> n] : n \in {0, 5}}
    \cup {[type |-> "bool"]}

\* The parameter lists of getpolallowedtag: the height can be left out.
AllowedTagParams ==
    {<<t>> : t \in TagHexStrings}
    \cup {<<t, v>> : t \in TagHexStrings, v \in HeightParams}

\* The handler of getpolallowedtag on params, up to its return or throw: the
\* frame it leaves.
GetPolAllowedTag(table, params) ==
    LET tag == ParseMinerTagHex(params[1])
        tip == TipHeight
        height == IF Len(params) > 1 THEN ParseHeightFlexible(params[2])
                  ELSE Returns(tip + 1)
    IN  IF ~tag.ok
        THEN [pc |-> "thrown", params |-> params, code |-> tag.code,
              message |-> tag.message]
        ELSE IF ~height.ok
        THEN [pc |-> "thrown", params |-> params, code |-> height.code,
              message |-> height.message]
        ELSE [pc |-> "returned", params |-> params, key |-> HexStr(tag.value),
              tip_height |-> tip, height |-> height.value,
              allowed |-> GetAllowedSubsidy(table, tag.value, height.value)]

\* The table after the handler: GetAllowedSubsidy looks the tag up when both
\* parameters parsed.
AfterGetPolAllowedTag(table, params) ==
    LET fr == GetPolAllowedTag(table, params)
    IN  IF fr.pc = "returned" THEN AfterFind(table, fr.key) ELSE table

\* A block of TagB or without a tag is connected, between two requests.
ParseConnect ==
    /\ rpc.pc = "idle"
    /\ TipHeight < MaxParseHeight
    /\ LedgerConnect
    /\ conn'.block \in {TaggedBlock(TagB), PlainBlock}
    /\ conn'.block_time \in {Genesis.time, 1700000000}

\* getpolallowedtag
AllowedTagCall ==
    \E params \in AllowedTagParams :
        /\ rpc.pc = "idle"
        /\ rpc' = GetPolAllowedTag(g_tag_state, params)
        /\ g_tag_state' = AfterGetPolAllowedTag(g_tag_state, params)
        /\ UNCHANGED <<pol_startheight, pol_monthblocks, chain,
                       g_pol_mutex, cs_main, conn, rb, committed, prev>>

\* The error reply is sent.
AllowedTagThrown ==
    /\ rpc.pc = "thrown"
    /\ rpc' = RpcIdle
    /\ UNCHANGED <<pol_startheight, pol_monthblocks, chain, g_tag_state,
                   g_pol_mutex, cs_main, conn, rb, committed, prev>>

NextParse == ParseConnect \/ AllowedTagCall \/ AllowedTagThrown \/ QueryDone

SpecParse == Init /\ [][NextParse]_vars

\* The step is a call of getpolallowedtag, from request to reply.
AllowedTagStep == rpc.pc = "idle" /\ rpc'.pc \in {"returned", "thrown"}

\* The string has a character that is not a hex digit.
NotHex(s) == \E i \in 1 .. Len(s) : s[i] \notin HexChars

\* The height string is a decimal number: digits only, at least one.
Decimal(s) == Len(s) > 0 /\ \A i \in 1 .. Len(s) : s[i] \in DigitChars

\* The decimal number is above INT_MAX = 2147483647.
ExceedsInt(s) ==
    LET nonzero == {i \in 1 .. Len(s) : s[i] # "0"}
        first == IF nonzero = {} THEN Len(s) + 1
                 ELSE CHOOSE i \in nonzero : \A j \in nonzero : i <= j
        digits == [i \in 1 .. Len(s) + 1 - first |-> HexDigit(s[first + i - 1])]
    IN  DigitsAbove(digits, <<2, 1, 4, 7, 4, 8, 3, 6, 4, 7>>)

\* The height string is empty, has no number at its start, has characters
\* after its number, is a negative number or is a number above INT_MAX.
MalformedHeightString(s) ==
    \/ s = <<>>
    \/ \A i \in 1 .. Len(s) : s[i] \notin DigitChars
    \/ \E i \in 1 .. Len(s) - 1 : s[i] \in DigitChars /\ s[i + 1] \notin DigitChars
    \/ s[1] \notin DigitChars \cup SpaceChars \cup {"+", "-"}
    \/ s[1] = "-" /\ Decimal(Tail(s)) /\ \E i \in 2 .. Len(s) : s[i] # "0"
    \/ Decimal(s) /\ ExceedsInt(s)

\* C27: a call of getpolallowedtag whose miner tag hex string has a length
\* other than 8, 16 or 24 or a character that is not hex, or whose height
\* string is empty, not a number, has characters after the number, is
\* negative or is above the int range, fails with RPC_INVALID_PARAMETER and
\* leaves the ledger as it was.
C27_MalformedInput ==
    [][(/\ AllowedTagStep
        /\ \/ Len(rpc'.params[1]) \notin {8, 16, 24}
           \/ NotHex(rpc'.params[1])
           \/ /\ Len(rpc'.params) > 1
              /\ rpc'.params[2].type = "str"
              /\ MalformedHeightString(rpc'.params[2].str))
       => /\ rpc'.pc = "thrown"
          /\ rpc'.code = "RPC_INVALID_PARAMETER"
          /\ g_tag_state' = g_tag_state]_vars

\* C27 witness: with TagB in the ledger, a call for its key with the height
\* "12a" was refused.
C27_Witness ==
    /\ rpc.pc = "thrown"
    /\ rpc.code = "RPC_INVALID_PARAMETER"
    /\ rpc.params = <<HexStr(TagB), [type |-> "str", str |-> <<"1", "2", "a">>]>>
    /\ HexStr(TagB) \in DOMAIN g_tag_state

-----------------------------------------------------------------------------
(* The tag of an address string: getpoladdressstatus.                       *)

POL_TAG_LEN == 12
OUTPUT_SIZE == 32

\* std::string::find('.'): the position of the first '.', 0 for npos.
FindDot(s) ==
    LET dots == {i \in 1 .. Len(s) : s[i] = "."}
    IN  IF dots = {} THEN 0 ELSE CHOOSE i \in dots : \A j \in dots : i <= j

\* StripWorkerSuffix(s)
StripWorkerSuffixNever(s) == s
StripWorkerSuffix(s) ==
    LET dot == FindDot(s)
    IN  IF dot # 0 THEN SubSeq(s, 1, dot - 1) ELSE s

\* The ASCII code of a character of an address string.
AsciiCode(c) ==
    CASE c = "." -> 46
      [] c = "a" -> 97
      [] c = "w" -> 119

RECURSIVE Absorb(_, _)
\* CSHA256::Write: the state after the characters of s.
Absorb(s, h) ==
    IF s = <<>> THEN h
    ELSE Absorb(Tail(s), (h * 31 + AsciiCode(Head(s)) + 1) % 65521)

\* CSHA256 over the characters of s: OUTPUT_SIZE bytes that depend on the
\* characters of s and on nothing else. The digest is a stand-in: what is
\* kept of SHA-256 is that it is a function of the bytes written, with
\* different digests for the different strings of the model.
CSHA256(s) ==
    LET h == Absorb(s, 7)
    IN  [i \in 1 .. OUTPUT_SIZE |->
            IF i % 2 = 1 THEN (h + i) % 256 ELSE ((h \div 256) + i) % 256]

\* Tag12FromAddressString(addr_in)
Tag12FromAddressString(addr_in) ==
    LET addr == StripWorkerSuffix(addr_in)
        hash == CSHA256(addr)
    IN  SubSeq(hash, 1, POL_TAG_LEN)

-----------------------------------------------------------------------------
(* SpecAddress: status requests by address string, two in a row on the same *)
(* ledger, and blocks of the miner who pays out to address "a".             *)

MaxAddressLen == 4
MaxAddressHeight == 2

AddressChars == {"a", ".", "w"}

\* Values of the address parameter: every string up to MaxAddressLen.
AddressStrings == UNION {[1 .. n -> AddressChars] : n \in 0 .. MaxAddressLen}

\* The block of a miner whose coinbase carries the tag of address "a".
AddressBlock == TaggedBlock(Tag12FromAddressString(<<"a">>))

\* An update for a block of that miner, between requests.
AddressUpdate ==
    \E height \in 1 .. MaxAddressHeight :
        /\ rpc.pc = "idle"
        /\ height > LastApplied(g_tag_state)
        /\ g_tag_state' = OnConnectBlock(g_tag_state, AddressBlock, height, 1700000000,
                                         pol_startheight, pol_monthblocks)
        /\ conn' = [pc |-> "L136"] @@ Frame(AddressBlock, height, 1700000000, pol_monthblocks)
        /\ UNCHANGED <<pol_startheight, pol_monthblocks, chain, g_pol_mutex, cs_main,
                       rb, rpc, committed, prev>>

\* What a reply of getpoladdressstatus is made of: the address, the tag
\* (line 202), the key of the lookup and the status (lines 204..205).
AddressReply(table, address_in) ==
    LET tag == Tag12FromAddressString(address_in)
    IN  [address_in |-> address_in, tag |-> tag, key |-> HexStr(tag),
         st |-> StatusOf(GetMinerTagStatus(table, tag))]

\* getpoladdressstatus for an address, and a second request on the same
\* ledger; the frame of the second keeps the reply to the first.
AddressCall ==
    \E address_in \in AddressStrings :
        /\ rpc.pc = "idle" \/ (rpc.pc = "replied" /\ rpc.before = Nullopt)
        /\ rpc' = [pc |-> "replied",
                   reply |-> AddressReply(g_tag_state, address_in),
                   before |-> IF rpc.pc = "replied" THEN Some(rpc.reply) ELSE Nullopt]
        /\ g_tag_state' = AfterFind(g_tag_state, HexStr(Tag12FromAddressString(address_in)))
        /\ UNCHANGED <<pol_startheight, pol_monthblocks, chain,
                       g_pol_mutex, cs_main, conn, rb, committed, prev>>

\* The client is done with its replies.
AddressDone ==
    /\ rpc.pc = "replied"
    /\ rpc' = RpcIdle
    /\ UNCHANGED <<pol_startheight, pol_monthblocks, chain, g_tag_state,
                   g_pol_mutex, cs_main, conn, rb, committed, prev>>

NextAddress == AddressUpdate \/ AddressCall \/ AddressDone

SpecAddress == Init /\ [][NextAddress]_vars

\* The part of the string before its first '.', the whole string without one.
BeforeFirstDot(s) ==
    LET n == CHOOSE k \in 0 .. Len(s) :
                 /\ \A i \in 1 .. k : s[i] # "."
                 /\ k < Len(s) => s[k + 1] = "."
    IN  [i \in 1 .. n |-> s[i]]

\* C28: the tag of an address string has 12 bytes, and two requests whose
\* address strings agree up to their first '.' get the same tag, look up the
\* same key and are given the same status.
C28_TagOfAddress ==
    rpc.pc = "replied" =>
      /\ Len(rpc.reply.tag) = 12
      /\ (/\ rpc.before # Nullopt
          /\ BeforeFirstDot(rpc.before[1].address_in) = BeforeFirstDot(rpc.reply.address_in))
         => /\ rpc.reply.tag = rpc.before[1].tag
            /\ rpc.reply.key = rpc.before[1].key
            /\ rpc.reply.st = rpc.before[1].st

\* C28 witness: after a request for "a", a request for "a.w." got the same
\* tag and the status of the miner, seen in two blocks.
C28_Witness ==
    /\ rpc.pc = "replied"
    /\ rpc.before # Nullopt
    /\ rpc.before[1].address_in = <<"a">>
    /\ rpc.reply.address_in = <<"a", ".", "w", ".">>
    /\ rpc.reply.tag = rpc.before[1].tag
    /\ rpc.reply.st.seen
    /\ rpc.reply.st.blocks_seen = 2

-----------------------------------------------------------------------------
(* SpecAnyOrder: updates at heights in any order, as after a reorganisation *)
(* of the chain: blocks are disconnected without a call into the ledger and *)
(* the blocks of the new branch are connected at heights already seen.      *)

MaxAnyHeight == 5
MaxUpdates == 3

\* OnConnectBlock for a tagged block at any height from the start height on.
AnyOrderUpdate ==
    \E tag \in {TagA}, height \in 0 .. MaxAnyHeight, block_time \in Times :
        /\ HexStr(tag) \in DOMAIN g_tag_state =>
              g_tag_state[HexStr(tag)].blocks_seen < MaxUpdates
        /\ Applies(TaggedBlock(tag), height, pol_startheight)
        /\ g_tag_state' = OnConnectBlock(g_tag_state, TaggedBlock(tag), height, block_time,
                                         pol_startheight, pol_monthblocks)
        /\ conn' = [pc |-> "L136"] @@ Frame(TaggedBlock(tag), height, block_time,
                                            pol_monthblocks)
        /\ UNCHANGED <<pol_startheight, pol_monthblocks, chain, g_pol_mutex, cs_main,
                       rb, rpc, committed, prev>>

NextAnyOrder == AnyOrderUpdate

SpecAnyOrder == Init /\ [][NextAnyOrder]_vars

\* C29: an update for a seen tag at a height below its last_seen_height is
\* applied: blocks_seen goes up by one, last_seen_height and last_seen_time
\* become those of the lower block, and points and last_seen_period stay
\* when the period of the block is not above last_seen_period.
C29_LowerHeightApplied ==
    [][(/\ UpdateStep
        /\ conn'.key \in DOMAIN g_tag_state
        /\ OldEntry.seen
        /\ conn'.height < OldEntry.last_seen_height)
       => /\ NewEntry.blocks_seen = OldEntry.blocks_seen + 1
          /\ NewEntry.last_seen_height = conn'.height
          /\ NewEntry.last_seen_time = conn'.block_time
          /\ conn'.height \div pol_monthblocks <= OldEntry.last_seen_month =>
                /\ NewEntry.points = OldEntry.points
                /\ NewEntry.last_seen_month = OldEntry.last_seen_month]_vars

\* C29 witness: a tag seen at height 4 and then at height 1 has height 1 and
\* the time of that block as its last sighting, 2 blocks, and the 2 points
\* and period 2 of height 4.
C29_Witness ==
    /\ conn.pc = "L136"
    /\ conn.height = 1
    /\ conn.block_time = 1700000000
    /\ conn.key \in DOMAIN g_tag_state
    /\ g_tag_state[conn.key].first_seen_height = 4
    /\ g_tag_state[conn.key].last_seen_height = 1
    /\ g_tag_state[conn.key].last_seen_time = 1700000000
    /\ g_tag_state[conn.key].blocks_seen = 2
    /\ g_tag_state[conn.key].points = 2
    /\ g_tag_state[conn.key].last_seen_month = 2

-----------------------------------------------------------------------------
(* Claims about the entries an update leaves alone (SpecPeriod).           *)

\* C30: an update for a tag leaves the entry of every other tag as it was,
\* and with it the subsidy that tag is allowed at every height: the points
\* of a tag change at its own sightings only, whatever the number of blocks
\* of other tags and of periods since its last one.
C30_OnlyOwnEntry ==
    [][\A tag \in {TagA, TagB} :
          (HexStr(tag) \in DOMAIN g_tag_state /\ (~UpdateStep \/ conn'.key # HexStr(tag)))
          => /\ HexStr(tag) \in DOMAIN g_tag_state'
             /\ g_tag_state'[HexStr(tag)] = g_tag_state[HexStr(tag)]
             /\ \A height \in 0 .. MaxPeriodHeight + 1 :
                   GetAllowedSubsidy(g_tag_state', tag, height)
                     = GetAllowedSubsidy(g_tag_state, tag, height)]_vars

\* C30 witness: TagA was seen at height 1 only; TagB has since been seen in
\* each of the periods 1 to 4, and TagA still has the 2 points and the
\* period 0 of its sighting.
C30_Witness ==
    /\ pol_monthblocks = 2
    /\ DOMAIN g_tag_state = {HexStr(TagA), HexStr(TagB)}
    /\ g_tag_state[HexStr(TagA)].last_seen_height = 1
    /\ g_tag_state[HexStr(TagA)].points = 2
    /\ g_tag_state[HexStr(TagA)].last_seen_month = 0
    /\ g_tag_state[HexStr(TagB)].blocks_seen = 4
    /\ g_tag_state[HexStr(TagB)].last_seen_month = 4
    /\ g_tag_state[HexStr(TagB)].points = 8

-----------------------------------------------------------------------------
(* SpecStreak: a chain of blocks of one miner and of blocks without a tag,  *)
(* long enough for more than 12 periods.                                    *)

MaxStreakHeight == 14

StreakMonthBlocks == {1, 2}

InitStreak ==
    /\ pol_startheight = DefaultStartHeight
    /\ pol_monthblocks \in StreakMonthBlocks
    /\ chain = <<>>
    /\ g_tag_state = EmptyMap
    /\ g_pol_mutex = "free"
    /\ cs_main = "free"
    /\ conn = ConnIdle
    /\ rb = RbIdle
    /\ rpc = RpcIdle
    /\ committed = EmptyMap
    /\ prev = PrevNone

\* The connection pipeline connects a block of TagA or a block without a tag.
StreakConnect ==
    \E b \in IF Len(chain) = 0 THEN {Genesis}
             ELSE {[block |-> TaggedBlock(TagA), time |-> 1700000000],
                   [block |-> PlainBlock, time |-> 1700000000]} :
        /\ TipHeight < MaxStreakHeight
        /\ g_tag_state' = OnConnectBlock(g_tag_state, b.block, TipHeight + 1, b.time,
                                         pol_startheight, pol_monthblocks)
        /\ committed' = g_tag_state'
        /\ chain' = Append(chain, b)
        /\ conn' = ReturnedFrame(b.block, TipHeight + 1, b.time)
        /\ UNCHANGED <<pol_startheight, pol_monthblocks, g_pol_mutex, cs_main,
                       rb, rpc, prev>>

NextStreak == StreakConnect

SpecStreak == InitStreak /\ [][NextStreak]_vars

\* The periods in which the chain has a block of TagA from the start height on.
ActivePeriods ==
    {h \div pol_monthblocks :
        h \in {i \in pol_startheight .. TipHeight : chain[i + 1].block = TaggedBlock(TagA)}}

\* The tag was sighted in every period from its first to its last.
NoPeriodMissed ==
    \A p \in ActivePeriods, q \in ActivePeriods :
        \A m \in p .. q : m \in ActivePeriods

\* C31: a tag sighted in k consecutive periods from its first sighting on has
\* min(2k, 24) points; from 12 such periods on it has 24 points, level 12 and
\* the whole schedule value as its allowed subsidy at every height.
C31_ConsecutivePeriods ==
    (ActivePeriods # {} /\ NoPeriodMissed) =>
      LET k == Cardinality(ActivePeriods)
          e == g_tag_state[HexStr(TagA)]
      IN  /\ e.points = IF 2 * k <= 24 THEN 2 * k ELSE 24
          /\ k >= 12 =>
               /\ e.points = 24
               /\ PolLevelFromPoints(e.seen, e.points) = 12
               /\ \A height \in 0 .. MaxStreakHeight + 1 :
                     GetAllowedSubsidy(g_tag_state, TagA, height) = GetBlockSubsidy(height)

\* C31 witness: a tag sighted in each of the periods 1 to 14 has 24 points.
C31_Witness ==
    /\ pol_monthblocks = 1
    /\ NoPeriodMissed
    /\ Cardinality(ActivePeriods) = 14
    /\ g_tag_state[HexStr(TagA)].points = 24
    /\ g_tag_state[HexStr(TagA)].blocks_seen = 14

-----------------------------------------------------------------------------
(* SpecOrder: updates at heights in any order and the table clear of a      *)
(* rebuild; the frame of a call records whether every update since the last *)
(* clear came at a height above all the earlier ones.                       *)

MaxOrderHeight == 4
MaxOrderUpdates == 3

\* Every update since the last clear came in increasing height order.
InOrder == IF "in_order" \in DOMAIN conn THEN conn.in_order ELSE TRUE

\* Values of -pol_startheight the calls are made under.
OrderStartHeights == {DefaultStartHeight, 2}

InitOrder ==
    /\ pol_startheight \in OrderStartHeights
    /\ pol_monthblocks \in StreakMonthBlocks
    /\ chain = <<>>
    /\ g_tag_state = EmptyMap
    /\ g_pol_mutex = "free"
    /\ cs_main = "free"
    /\ conn = ConnIdle
    /\ rb = RbIdle
    /\ rpc = RpcIdle
    /\ committed = EmptyMap
    /\ prev = PrevNone

\* OnConnectBlock for a tagged block at any height; below the start height
\* the call returns at line 101.
OrderUpdate ==
    \E tag \in {TagA, TagB}, height \in 0 .. MaxOrderHeight :
        /\ HexStr(tag) \in DOMAIN g_tag_state =>
              g_tag_state[HexStr(tag)].blocks_seen < MaxOrderUpdates
        /\ g_tag_state' = OnConnectBlock(g_tag_state, TaggedBlock(tag), height, 1700000000,
                                         pol_startheight, pol_monthblocks)
        /\ conn' = IF Applies(TaggedBlock(tag), height, pol_startheight)
                   THEN [pc |-> "L136",
                         in_order |-> InOrder /\ height > LastApplied(g_tag_state)]
                        @@ Frame(TaggedBlock(tag), height, 1700000000, pol_monthblocks)
                   ELSE conn
        /\ UNCHANGED <<pol_startheight, pol_monthblocks, chain, g_pol_mutex, cs_main,
                       rb, rpc, committed, prev>>

\* { LOCK(g_pol_mutex); g_tag_state.clear(); } of RebuildFromActiveChain.
OrderClear ==
    /\ g_tag_state # EmptyMap
    /\ g_tag_state' = Cleared(g_tag_state)
    /\ conn' = ConnIdle
    /\ UNCHANGED <<pol_startheight, pol_monthblocks, chain, g_pol_mutex, cs_main,
                   rb, rpc, committed, prev>>

NextOrder == OrderUpdate \/ OrderClear

SpecOrder == InitOrder /\ [][NextOrder]_vars

\* C32: no step lowers the last_seen_period of an entry that is still there
\* after it (only the clear of a rebuild removes entries), and while the
\* updates since the last clear came in increasing height order every seen
\* entry has last_seen_period = last_seen_height div period_length.
C32_PeriodOfEntry ==
    /\ [][\A k \in DOMAIN g_tag_state \cap DOMAIN g_tag_state' :
             g_tag_state'[k].last_seen_month >= g_tag_state[k].last_seen_month]_vars
    /\ [](InOrder =>
             \A k \in DOMAIN g_tag_state :
                 g_tag_state[k].seen =>
                     g_tag_state[k].last_seen_month
                       = g_tag_state[k].last_seen_height \div pol_monthblocks)

\* C32 witness: after a sighting at height 4 and one at height 1, out of
\* order, the entry keeps period 2 with last_seen_height 1.
C32_Witness ==
    /\ pol_monthblocks = 2
    /\ ~InOrder
    /\ HexStr(TagA) \in DOMAIN g_tag_state
    /\ g_tag_state[HexStr(TagA)].last_seen_height = 1
    /\ g_tag_state[HexStr(TagA)].last_seen_month = 2
    /\ HexStr(TagB) \in DOMAIN g_tag_state

\* C33: every entry of the ledger has seen = TRUE, blocks_seen >= 1 and
\* first_seen_height at or above the start height; no step changes the
\* first_seen_height of an entry that is still there after it; and while the
\* updates came in increasing height order, each height at most once,
\* blocks_seen <= last_seen_height - first_seen_height + 1.
C33_EntryShape ==
    /\ [](\A k \in DOMAIN g_tag_state :
             /\ g_tag_state[k].seen
             /\ g_tag_state[k].blocks_seen >= 1
             /\ g_tag_state[k].first_seen_height >= pol_startheight)
    /\ [][\A k \in DOMAIN g_tag_state \cap DOMAIN g_tag_state' :
             g_tag_state'[k].first_seen_height = g_tag_state[k].first_seen_height]_vars
    /\ [](InOrder =>
             \A k \in DOMAIN g_tag_state :
                 g_tag_state[k].blocks_seen
                   <= g_tag_state[k].last_seen_height - g_tag_state[k].first_seen_height + 1)

\* C33 witness: under start height 2 a tag was seen at the heights 2, 3 and
\* 4, in that order: 3 blocks between its first and last height.
C33_Witness ==
    /\ pol_startheight = 2
    /\ InOrder
    /\ HexStr(TagB) \in DOMAIN g_tag_state
    /\ g_tag_state[HexStr(TagB)].first_seen_height = 2
    /\ g_tag_state[HexStr(TagB)].last_seen_height = 4
    /\ g_tag_state[HexStr(TagB)].blocks_seen = 3

-----------------------------------------------------------------------------
(* Claims about the range of the subsidy (SpecSubsidy).                    *)

\* C34: for the height and the score of a request, base subsidy <= allowed
\* subsidy <= schedule value, and the bonus, allowed minus base, is between 0
\* and schedule - floor(schedule / 2).
C34_SubsidyRange ==
    rpc.pc = "returned" =>
        LET schedule == GetBlockSubsidy(rpc.height)
            bonus == BonusSubsidy(rpc.allowed, rpc.base)
        IN  /\ schedule >= 0
            /\ RequestPoints \in 0 .. 24
            /\ rpc.base <= rpc.allowed
            /\ rpc.allowed <= schedule
            /\ bonus = rpc.allowed - rpc.base
            /\ bonus >= 0
            /\ bonus <= schedule - (schedule \div 2)

\* C34 witness: schedule 25 and 24 points: base 12, allowed 25, and the
\* bonus is the whole of the other half, 13.
C34_Witness ==
    /\ rpc.pc = "returned"
    /\ GetBlockSubsidy(rpc.height) = 25
    /\ RequestPoints = 24
    /\ rpc.base = 12
    /\ rpc.allowed = 25
    /\ BonusSubsidy(rpc.allowed, rpc.base) = 13

-----------------------------------------------------------------------------
(* SpecView: status queries beside RebuildFromActiveChain, over a chain    *)
(* that was connected block by block before the rebuild is asked for.      *)

MaxViewHeight == 2

RECURSIVE ViewChains(_)
\* The chains of n blocks: the genesis block, then blocks of either tag and
\* plain blocks.
ViewChains(n) ==
    IF n = 0 THEN {<<>>}
    ELSE IF n = 1 THEN {<<Genesis>>}
    ELSE {Append(c, [block |-> b, time |-> 1700000000]) :
             c \in ViewChains(n - 1), b \in ChainBlocks}

\* The ledger holds what the connection of the blocks of the chain left.
InitView ==
    /\ pol_startheight = DefaultStartHeight
    /\ pol_monthblocks \in ChainMonthBlocks
    /\ chain \in UNION {ViewChains(n) : n \in 0 .. MaxViewHeight + 1}
    /\ g_tag_state = LiveLedger(chain)
    /\ g_pol_mutex = "free"
    /\ cs_main = "free"
    /\ conn = ConnIdle
    /\ rb = RbIdle
    /\ rpc = RpcIdle
    /\ committed = g_tag_state
    /\ prev = PrevNone

NextView ==
    \/ RebuildBegin(TRUE) \/ RebuildClear \/ RebuildLoop \/ RebuildStep
    \/ RebuildNext \/ RebuildLog \/ RebuildEnd(TRUE)
    \/ QueryBegin \/ GetTipHeightLock \/ GetTipHeightReturn
    \/ QueryLock \/ QueryFind \/ QueryUnlock \/ QueryDone

SpecView == InitView /\ [][NextView]_vars

\* The ledgers the rebuild in progress passes through: the one it found and
\* the replays of the blocks at the heights up to h, for each h up to the tip
\* (none of them for h below the first height).
RebuildLedgers ==
    {rb.before} \cup
    {Replay(chain, h, rb.bad) : h \in (FirstHeight(pol_startheight) - 1) .. rb.tip}

\* C35: while a rebuild is in progress, the ledger a query reads under the
\* lock is the ledger the rebuild found or the replay of the blocks from the
\* start height up to some height not above the tip, and the snapshot the
\* query returns is the entry of that ledger.
C35_RebuildView ==
    (rpc.pc = "L149" /\ rb.pc \notin {"idle", "R256"}) =>
        /\ g_tag_state \in RebuildLedgers
        /\ \E ledger \in RebuildLedgers : rpc.ret = Snapshot(ledger, rpc.key)
        /\ rb.pc = "R226" => g_tag_state = rb.before
        /\ rb.pc # "R226" =>
              \E h \in (FirstHeight(pol_startheight) - 1) .. rb.tip :
                  g_tag_state = Replay(chain, h, rb.bad)

\* C35 witness: a query took its snapshot while the rebuild was between the
\* blocks at heights 1 and 2, both with the tag asked for: the snapshot is
\* the entry after the first of them, not the one the rebuild found and not
\* the one it will end with.
C35_Witness ==
    /\ rpc.pc = "L149"
    /\ rb.pc \in {"ret", "R234", "L101", "L112"}
    /\ rb.bad = {}
    /\ rb.tip = 2
    /\ rpc.key = HexStr(TagA)
    /\ rb.before # EmptyMap
    /\ rpc.ret # Nullopt
    /\ rpc.ret = Snapshot(Replay(chain, 1, {}), rpc.key)
    /\ rpc.ret # Snapshot(rb.before, rpc.key)
    /\ rpc.ret # Snapshot(Replay(chain, 2, {}), rpc.key)

-----------------------------------------------------------------------------
(* SpecStatus: getpoladdressstatus beside the connection of blocks. After  *)
(* the status lookup of line 205 the handler asks GetAllowedSubsidy, which *)
(* looks the tag up again under its own LOCK(g_pol_mutex).                 *)

\* Lines 196..200 of src/rpc/pol.cpp: the height of the request, the tip
\* height unless the height parameter is given, and 0 when below 0.
RequestHeight(tip_height, param) ==
    LET height == IF param = Nullopt THEN tip_height ELSE param[1]
    IN  IF height < 0 THEN 0 ELSE height

\* The height parameters of the requests: none, or the height 0.
StatusHeightParams == {Nullopt, Some(0)}

\* Lines 196..208: the status is kept, the height is settled and
\* GetAllowedSubsidy is called.
StatusAllowedBegin ==
    \E param \in StatusHeightParams :
        /\ rpc.pc = "returned"
        /\ rpc' = [rpc EXCEPT !.pc = "S159",
                              !.height = RequestHeight(rpc.tip_height, param)]
        /\ UNCHANGED <<pol_startheight, pol_monthblocks, chain, g_tag_state,
                       g_pol_mutex, cs_main, conn, rb, committed, prev>>

\* Line 159 of pol.cpp, in GetMinerTagStatus: LOCK(g_pol_mutex).
StatusAllowedLock ==
    /\ rpc.pc = "S159"
    /\ QueryMayLock(g_pol_mutex)
    /\ g_pol_mutex' = "rpc"
    /\ rpc' = [rpc EXCEPT !.pc = "S159f"]
    /\ UNCHANGED <<pol_startheight, pol_monthblocks, chain, g_tag_state, cs_main,
                   conn, rb, committed, prev>>

\* Lines 159..170: the entry is found and copied, and the allowed subsidy is
\* computed from the copy.
StatusAllowedFind ==
    /\ rpc.pc = "S159f"
    /\ rpc' = [rpc EXCEPT !.pc = "S159u",
                          !.allowed = GetAllowedSubsidy(g_tag_state, RequestTag, rpc.height)]
    /\ g_tag_state' = AfterFind(g_tag_state, rpc.key)
    /\ UNCHANGED <<pol_startheight, pol_monthblocks, chain, g_pol_mutex, cs_main,
                   conn, rb, committed, prev>>

\* The scope of the lock of the lookup ends.
StatusAllowedUnlock ==
    /\ rpc.pc = "S159u"
    /\ g_pol_mutex' = ScopeEnd(g_pol_mutex)
    /\ rpc' = [rpc EXCEPT !.pc = "S209"]
    /\ UNCHANGED <<pol_startheight, pol_monthblocks, chain, g_tag_state, cs_main,
                   conn, rb, committed, prev>>

\* Lines 209..247: the base subsidy, and the response is built.
StatusReply ==
    /\ rpc.pc = "S209"
    /\ rpc' = [rpc EXCEPT !.pc = "replied", !.base = GetBaseSubsidy(rpc.height)]
    /\ UNCHANGED <<pol_startheight, pol_monthblocks, chain, g_tag_state,
                   g_pol_mutex, cs_main, conn, rb, committed, prev>>

\* The response was sent.
StatusDone ==
    /\ rpc.pc = "replied"
    /\ rpc' = RpcIdle
    /\ UNCHANGED <<pol_startheight, pol_monthblocks, chain, g_tag_state,
                   g_pol_mutex, cs_main, conn, rb, committed, prev>>

NextStatus ==
    \/ ConnectBegin \/ ConnectStep \/ ConnectEnd
    \/ QueryBegin \/ GetTipHeightLock \/ GetTipHeightReturn
    \/ QueryLock \/ QueryFind \/ QueryUnlock
    \/ StatusAllowedBegin \/ StatusAllowedLock \/ StatusAllowedFind
    \/ StatusAllowedUnlock \/ StatusReply \/ StatusDone

SpecStatus == Init /\ [][NextStatus]_vars

\* The points field of the response: st.points of line 234.
ReportedPoints == IF rpc.ret = Nullopt THEN RpcDefaultStatus.points ELSE rpc.ret[1].points

\* C36: in a response, allowed_subsidy = base_subsidy + floor(loyal_half *
\* points / 24) for the points of the same response, whatever blocks were
\* connected while the request ran.
C36_ResponseConsistent ==
    rpc.pc = "replied" =>
        LET S == GetBlockSubsidy(rpc.height)
        IN  rpc.allowed = rpc.base + CDiv(LoyalHalf(S, rpc.base) * ReportedPoints, 24)

-----------------------------------------------------------------------------
(* Claims about block times (SpecLedger).                                  *)

\* The chains that carry the blocks of the active chain at the same heights
\* under other block times.
Retimed ==
    {[i \in 1 .. Len(chain) |-> [chain[i] EXCEPT !.time = times[i]]] :
        times \in [1 .. Len(chain) -> Times]}

\* C37: the ledger built over a chain with the same blocks and other block
\* times has the same tags, with the same points and last_seen_month and
\* every other field but last_seen_time, and gives the same allowed subsidy.
C37_TimesDoNotMatter ==
    \A ledger \in {LiveLedger(other) : other \in Retimed} :
        /\ DOMAIN ledger = DOMAIN g_tag_state
        /\ \A k \in DOMAIN g_tag_state :
              /\ ledger[k].points = g_tag_state[k].points
              /\ ledger[k].last_seen_month = g_tag_state[k].last_seen_month
              /\ [ledger[k] EXCEPT !.last_seen_time = g_tag_state[k].last_seen_time]
                    = g_tag_state[k]
        /\ \A tag \in QueryTags, height \in 0 .. MaxLedgerHeight :
              GetAllowedSubsidy(ledger, tag, height)
                  = GetAllowedSubsidy(g_tag_state, tag, height)

\* C37 witness: a tag was connected in two periods under different block
\* times, its score moved in the second, and the same blocks under swapped
\* times give a ledger that differs from this one.
C37_Witness ==
    /\ Len(chain) = 4
    /\ chain[2].block = TaggedBlock(TagA)
    /\ chain[4].block = TaggedBlock(TagA)
    /\ chain[2].time # chain[4].time
    /\ g_tag_state[HexStr(TagA)].points = 2 * ActivePoints
    /\ g_tag_state[HexStr(TagA)].last_seen_time = chain[4].time
    /\ \E other \in Retimed :
          /\ other[2].time = chain[4].time
          /\ other[4].time = chain[2].time
          /\ LiveLedger(other) # g_tag_state

====
